---- MODULE Spec2Model ----
(***************************************************************************)
(* Advisor-appointment booking agent: the booking registry, the IST clock  *)
(* utilities, the slot availability engine and the per-session             *)
(* conversation engine (processMessage), as a state machine.               *)
(*                                                                         *)
(* Instants are minutes since the epoch (UTC).  A civil date string        *)
(* 'YYYY-MM-DD' is represented by its day number since the epoch (the      *)
(* encoding is one-to-one), a time of day by the source's 'HH:MM' string.  *)
(* The host's Date.getTimezoneOffset() is tzOffset (constant over a run:   *)
(* no daylight-saving change inside the 8-day window).                     *)
(***************************************************************************)
EXTENDS Integers, Sequences, FiniteSets, TLC

VARIABLES
  now,        \* the true current instant, new Date().getTime(), in minutes
  tzOffset,   \* the host's getTimezoneOffset(), in minutes (IST host: -330)
  bookings,   \* bookingStore.js `bookings` Map: code -> booking record
  query,      \* the last direct call of the availability engine and its result
  sessions,   \* sessionManager.js `sessions` Map: session id -> session
  pc,         \* per session id: where its processMessage call is suspended ("idle": none running)
  turn,       \* per session id: the locals of its current (or last) processMessage call
  lastIndex,  \* guardrails.js PII_PATTERNS: each global regular expression's lastIndex
  call        \* the last direct call of a stateless helper and its result

vars == <<now, tzOffset, bookings, query, sessions, pc, turn, lastIndex, call>>

\* ---------------------------------------------------------------- values

NULL == "null"          \* JS null / undefined of a string-valued field
UNDEF == -1             \* preferences.specificHour === undefined
NoDate == -1            \* targetDate === null
NoSlot == [date |-> NoDate, time |-> NULL]     \* selectedSlot null

MinutesPerDay == 24 * 60
IST_OFFSET_MIN == 330

timeSlots == <<"10:00", "14:00", "16:00">>

\* parseInt(time.split(':')[0])
TimeHour(t) == CASE t = "10:00" -> 10 [] t = "14:00" -> 14 [] t = "16:00" -> 16 [] OTHER -> 0

Abs(x) == IF x < 0 THEN 0 - x ELSE x

\* Day of the week of a civil day number (day 0 = 1970-01-01, a Thursday).
DayOfWeek(d) == (d + 4) % 7

\* ------------------------------------------------------ JS Date on the host

\* date.getFullYear()/getMonth()/getDate(): the civil day in the HOST's zone.
LocalDay(t) == (t - tzOffset) \div MinutesPerDay

\* new Date(year, month, day, 0, 0, 0, 0): midnight of a civil day in the host's zone.
LocalMidnight(d) == d * MinutesPerDay + tzOffset

\* d2 = new Date(d); d2.setDate(d.getDate() + k)
AddDays(t, k) == t + k * MinutesPerDay

\* ------------------------------------------------------------ istDate.js

getISTDate ==
  IF tzOffset = 0 - IST_OFFSET_MIN THEN now
  ELSE (now + tzOffset) + IST_OFFSET_MIN

getISTToday ==
  IF tzOffset = 0 - IST_OFFSET_MIN THEN LocalMidnight(LocalDay(now))
  ELSE LocalMidnight(LocalDay(getISTDate))

\* The UTC components of istTime = date + offset + 5.5h (or the local ones on an IST host).
ISTShifted(t) ==
  IF tzOffset = 0 - IST_OFFSET_MIN THEN t - tzOffset
  ELSE (t + tzOffset) + IST_OFFSET_MIN

formatISTDate(t) == ISTShifted(t) \div MinutesPerDay

getISTDayOfWeek(t) == DayOfWeek(ISTShifted(t) \div MinutesPerDay)

\* Date.UTC(y, m, d, hh, mm) - 5.5h: the true instant of an IST wall-clock time.
createISTDateTime(dateStr, timeStr) ==
  (dateStr * MinutesPerDay + TimeHour(timeStr) * 60) - IST_OFFSET_MIN

\* ---------------------------------------------------------- bookingStore.js

Codes == {"NL-AAAA", "NL-BBBB", "NL-CCCC"}

NoBooking == [status |-> "absent", selectedSlot |-> NoSlot, topic |-> NULL,
              calendarEventId |-> NULL, previousSlot |-> NoSlot, cancelled |-> 0]

\* bookings.values(), as the set of codes that have a record
StoredCodes == {c \in DOMAIN bookings : bookings[c].status # "absent"}

\* The bookings a conflict check looks at: not cancelled, not the excluded code.
ActiveCodes(excludeBookingCode) ==
  {c \in StoredCodes : bookings[c].status # "cancelled" /\ c # excludeBookingCode}

\* isSlotBooked as it would be if it never consulted the registry.
isSlotBooked_Never(date, time, excludeBookingCode) == FALSE

isSlotBooked(date, time, excludeBookingCode) ==
  \E c \in ActiveCodes(excludeBookingCode) :
     /\ bookings[c].selectedSlot # NoSlot
     /\ bookings[c].selectedSlot.date = date
     /\ bookings[c].selectedSlot.time = time

\* getBookedSlots as it would be if the engine also withheld the slots it returned last.
getBookedSlots_RememberingOffers(excludeBookingCode) ==
  {bookings[c].selectedSlot : c \in
     {x \in ActiveCodes(excludeBookingCode) :
        bookings[x].selectedSlot.date # NoDate /\ bookings[x].selectedSlot.time # NULL}}
    \cup {query.slots[i] : i \in DOMAIN query.slots}

\* The set of {date, time} of the active bookings (the source's array, used for membership only).
getBookedSlots(excludeBookingCode) ==
  {bookings[c].selectedSlot : c \in
     {x \in ActiveCodes(excludeBookingCode) :
        bookings[x].selectedSlot.date # NoDate /\ bookings[x].selectedSlot.time # NULL}}

isDateFullyBooked(date, excludeBookingCode) ==
  \A i \in DOMAIN timeSlots :
     [date |-> date, time |-> timeSlots[i]] \in getBookedSlots(excludeBookingCode)

\* ------------------------------------------------------ BookingRepository.js

\* BookingRepository.getBookedSlots: one entry per confirmed booking other than the
\* excluded one, kept here as the codes that contribute an entry (a booking's date and
\* time are the selectedSlot of its record).
BookingRepository_getBookedSlots(excludeBookingCode) ==
  {c \in StoredCodes : bookings[c].status = "confirmed" /\ c # excludeBookingCode}

\* BookingRepository.isDateFullyBooked: at least totalSlotsPerDay entries carry the date.
BookingRepository_isDateFullyBooked(date, excludeBookingCode) ==
  Cardinality({c \in BookingRepository_getBookedSlots(excludeBookingCode) :
                 bookings[c].selectedSlot # NoSlot /\ bookings[c].selectedSlot.date = date})
    >= Len(timeSlots)

\* ------------------------------------------------------ mockAvailability.js

Slot(dateStr, time) == [date |-> dateStr, time |-> time]

NoPrefs == [day |-> NULL, time |-> NULL, specificHour |-> UNDEF]   \* {} and {day: null, time: null}

\* The candidate times of one date, in timeSlots order.
SlotsOn(dateStr) == [i \in DOMAIN timeSlots |-> Slot(dateStr, timeSlots[i])]

\* GenerateFrom with the rest-day skip of line 45 removed.
RECURSIVE GenerateFrom_NoSundaySkip(_, _)
GenerateFrom_NoSundaySkip(dayOffset, excludeBookingCode) ==
  IF dayOffset > 7 THEN <<>>
  ELSE LET dateStr == formatISTDate(AddDays(getISTToday, dayOffset))
           Keep(s) == /\ ~(createISTDateTime(s.date, s.time) <= getISTDate)
                      /\ s \notin getBookedSlots(excludeBookingCode)
       IN SelectSeq(SlotsOn(dateStr), Keep) \o GenerateFrom_NoSundaySkip(dayOffset + 1, excludeBookingCode)

\* Lines 40-72: the slots of the day offsets k..7, in (day, time) order.
RECURSIVE GenerateFrom(_, _)
GenerateFrom(dayOffset, excludeBookingCode) ==
  IF dayOffset > 7 THEN <<>>
  ELSE LET slotDate == AddDays(getISTToday, dayOffset)
           dateStr == formatISTDate(slotDate)
           Keep(s) == /\ ~(createISTDateTime(s.date, s.time) <= getISTDate)
                      /\ s \notin getBookedSlots(excludeBookingCode)
           rest == GenerateFrom(dayOffset + 1, excludeBookingCode)
       IN IF getISTDayOfWeek(slotDate) = 0 THEN rest
          ELSE SelectSeq(SlotsOn(dateStr), Keep) \o rest

\* Lines 149-162, 249-261, 288-300: Monday's slots generated afresh, the past ones dropped.
GenerateMondaySlots(mondayDateStr) ==
  SelectSeq(SlotsOn(mondayDateStr), LAMBDA s : createISTDateTime(s.date, s.time) > getISTDate)

\* let daysToMonday = 1 - currentDay; if (daysToMonday <= 0) daysToMonday += 7
DaysToMonday ==
  LET d == 1 - getISTDayOfWeek(getISTToday) IN IF d <= 0 THEN d + 7 ELSE d

NextMondayStr == formatISTDate(AddDays(getISTToday, DaysToMonday))

\* The loop over availableSlots = [10, 14, 16] with a strict '<': the earlier one wins a tie.
ClosestSlotHour(hour24) ==
  LET d10 == Abs(hour24 - 10)
      d14 == Abs(hour24 - 14)
      d16 == Abs(hour24 - 16)
      c1 == IF d14 < d10 THEN 14 ELSE 10
      m1 == IF d14 < d10 THEN d14 ELSE d10
  IN IF d16 < m1 THEN 16 ELSE c1

\* The timeKeywords table, for the time strings the model uses ('noon' matches no key).
TimeKeywordTimes(timeLower) ==
  CASE timeLower = "morning" -> {"10:00"}
    [] timeLower = "afternoon" -> {"14:00"}
    [] timeLower = "evening" -> {"16:00"}
    [] OTHER -> {}

DayNames == <<"sunday", "monday", "tuesday", "wednesday", "thursday", "friday", "saturday">>

\* dayKeywords[keyword] for the weekday names monday..saturday (0 when the string names none).
DayKeywordIndex(dayLower) ==
  IF \E i \in 2..7 : DayNames[i] = dayLower
  THEN (CHOOSE i \in 2..7 : DayNames[i] = dayLower) - 1
  ELSE 0

OnDate(slots, dateStr) == SelectSeq(slots, LAMBDA s : s.date = dateStr)

\* tomorrow.setDate(today.getDate() + 1), moved on to Monday when it is a Sunday.
TomorrowTarget(today, tomorrow) ==
  IF getISTDayOfWeek(tomorrow) = 0
  THEN (IF getISTDayOfWeek(AddDays(tomorrow, 1)) # 1
        THEN AddDays(today, DaysToMonday)
        ELSE AddDays(tomorrow, 1))
  ELSE tomorrow

\* The day part of the filter:
\* <<isSundayRequest, targetDate seen by the caller, the date filtered on (NoDate: none)>>
\* A weekday name resolves to the next such day after today.
DayPart(dayLower, today) ==
  CASE dayLower = NULL -> <<FALSE, NoDate, NoDate>>
    [] dayLower = "tomorrow" ->
         <<getISTDayOfWeek(AddDays(today, 1)) = 0,
           formatISTDate(TomorrowTarget(today, AddDays(today, 1))),
           formatISTDate(TomorrowTarget(today, AddDays(today, 1)))>>
    [] dayLower = "today" ->
         IF getISTDayOfWeek(today) = 0 THEN <<TRUE, NextMondayStr, NextMondayStr>>
         ELSE <<FALSE, formatISTDate(today), formatISTDate(today)>>
    [] dayLower = "sunday" -> <<TRUE, NoDate, NextMondayStr>>
    [] DayKeywordIndex(dayLower) # 0 ->
         <<FALSE, NoDate,
           formatISTDate(AddDays(today,
                                 IF DayKeywordIndex(dayLower) - getISTDayOfWeek(today) <= 0
                                 THEN DayKeywordIndex(dayLower) - getISTDayOfWeek(today) + 7
                                 ELSE DayKeywordIndex(dayLower) - getISTDayOfWeek(today)))>>
    [] OTHER -> <<FALSE, NoDate, NoDate>>

\* The time part of the filter: the slot times asked for (none: no time filter).
TargetTimes(preferences) ==
  IF preferences.time = NULL THEN {}
  ELSE IF preferences.specificHour # UNDEF
       THEN {CASE ClosestSlotHour(preferences.specificHour) = 10 -> "10:00"
               [] ClosestSlotHour(preferences.specificHour) = 14 -> "14:00"
               [] OTHER -> "16:00"}
       ELSE TimeKeywordTimes(preferences.time)

\* What filterSlotsByPreferences returns, byTime being the slots that pass both parts.
FilterOutcome(slots, dayPart, byTime) ==
  [filtered |-> IF Len(byTime) > 0 THEN byTime ELSE slots,
   aliased |-> Len(byTime) = 0,         \* `filtered` is the caller's `slots` array itself
   isSundayRequest |-> dayPart[1],
   targetDate |-> dayPart[2]]

FilterByTime(slots, dayPart, byDay, targetTimes) ==
  FilterOutcome(slots, dayPart,
                IF targetTimes = {} THEN byDay
                ELSE SelectSeq(byDay, LAMBDA s : s.time \in targetTimes))

FilterByDay(slots, preferences, dayPart) ==
  FilterByTime(slots, dayPart,
               IF dayPart[3] = NoDate THEN slots ELSE OnDate(slots, dayPart[3]),
               TargetTimes(preferences))

filterSlotsByPreferences(slots, preferences) ==
  FilterByDay(slots, preferences, DayPart(preferences.day, getISTToday))

\* Array.prototype.sort with (a, b) => |a.hour - h| - |b.hour - h|: stable.
SortByCloseness(slots, hour24) ==
  LET Diff(s) == Abs(TimeHour(s.time) - hour24)
      diffs == {Diff(slots[i]) : i \in DOMAIN slots}
      RECURSIVE Take(_)
      Take(left) ==
        IF left = {} THEN <<>>
        ELSE LET m == CHOOSE d \in left : \A e \in left : d <= e
             IN SelectSeq(slots, LAMBDA s : Diff(s) = m) \o Take(left \ {m})
  IN Take(diffs)

SubSeqTo(s, n) == IF Len(s) <= n THEN s ELSE SubSeq(s, 1, n)     \* s.slice(0, n)

NotIn(slots, other) ==
  SelectSeq(slots, LAMBDA s : ~\E i \in DOMAIN other : other[i] = s)

\* Lines 164-214: what is returned once Monday's slots are at hand.
MondayFallback(byTime, allMondaySlots) ==
  IF Len(byTime) > 0 THEN SubSeqTo(byTime, 2)
  ELSE IF Len(allMondaySlots) = 0 /\ Len(byTime) = 0
       THEN <<Slot(NextMondayStr, "10:00"), Slot(NextMondayStr, "14:00")>>
       ELSE IF Len(allMondaySlots) > 0 THEN SubSeqTo(allMondaySlots, 2)
            ELSE SubSeqTo(byTime, 2)

\* Lines 166-176: the time preference applied to Monday's slots.
MondayByTime(mondaySlots, times, hasTime, allMondaySlots) ==
  MondayFallback(IF hasTime /\ Len(mondaySlots) > 0 /\ times # {}
                 THEN SelectSeq(mondaySlots, LAMBDA s : s.time \in times)
                 ELSE mondaySlots,
                 allMondaySlots)

\* Lines 131-214: no match on a Sunday request with a target date.
SundayNoMatch(slots, preferences, targetDate) ==
  MondayByTime(IF Len(OnDate(slots, targetDate)) = 0
               THEN GenerateMondaySlots(NextMondayStr)
               ELSE OnDate(slots, targetDate),
               TimeKeywordTimes(preferences.time), preferences.time # NULL,
               OnDate(slots, targetDate))

\* Lines 272-304: a Sunday request whose result holds a slot off the target date.
SundayFinalCheck(slots, result, targetDate) ==
  IF \E i \in DOMAIN result : result[i].date # targetDate
  THEN LET found == OnDate(slots, targetDate)
           mondaySlots == IF Len(found) = 0 THEN GenerateMondaySlots(NextMondayStr) ELSE found
       IN SubSeqTo(mondaySlots, 2)
  ELSE result

\* Lines 272-310: the last check of a Sunday request, and the flag on the result.
SundayChecked(slotsNow, result, isSundayRequest, targetDate) ==
  [slots |-> IF isSundayRequest /\ targetDate # NoDate
             THEN SundayFinalCheck(slotsNow, result, targetDate)
             ELSE result,
   isSundayRequest |-> isSundayRequest]

\* Lines 221-270: 'tomorrow' is Sunday but the flag was not set.
TomorrowChecked(slotsNow, preferences, f, result) ==
  LET missedSunday == /\ preferences.day = "tomorrow"
                      /\ ~f.isSundayRequest
                      /\ getISTDayOfWeek(AddDays(getISTToday, 1)) = 0
      mondayDateStr == formatISTDate(AddDays(getISTToday, 2))
      mondayNow == OnDate(slotsNow, mondayDateStr)
      redirected ==
        IF ~\E i \in DOMAIN result : result[i].date = mondayDateStr
        THEN SubSeqTo(IF Len(mondayNow) = 0 THEN GenerateMondaySlots(mondayDateStr)
                      ELSE mondayNow, 2)
        ELSE SubSeqTo(OnDate(result, mondayDateStr), 2)
  IN IF missedSunday
     THEN SundayChecked(slotsNow, redirected, TRUE, mondayDateStr)
     ELSE SundayChecked(slotsNow, result, f.isSundayRequest, f.targetDate)

\* Lines 94-219: the result by the number of matches.  The in-place sort of line 99
\* reorders `slots` too when `filtered` is that same array.
Matched(slots, preferences, f, sundayTarget, filtered, sorted) ==
  LET onTarget == NotIn(OnDate(slots, f.targetDate), filtered)
      remaining == IF sundayTarget /\ Len(onTarget) # 0 THEN onTarget
                   ELSE NotIn(slots, filtered)
      slotsNow == IF Len(filtered) >= 2 /\ f.aliased /\ ~sundayTarget THEN sorted ELSE slots
  IN TomorrowChecked(slotsNow, preferences, f,
       IF Len(filtered) >= 2 THEN SubSeqTo(sorted, 2)
       ELSE IF Len(filtered) = 1 THEN SubSeqTo(filtered \o SubSeqTo(remaining, 1), 2)
       ELSE IF sundayTarget THEN SundayNoMatch(slots, preferences, f.targetDate)
       ELSE SubSeqTo(slots, 2))

\* Lines 84-106: a Sunday request keeps the target date's matches only; the sort.
Narrowed(slots, preferences, f, sundayTarget, filtered) ==
  Matched(slots, preferences, f, sundayTarget, filtered,
          IF preferences.specificHour # UNDEF
          THEN SortByCloseness(filtered, preferences.specificHour)
          ELSE filtered)

\* Lines 76-93: f is what filterSlotsByPreferences returned.
Filtered(slots, preferences, f) ==
  Narrowed(slots, preferences, f, f.isSundayRequest /\ f.targetDate # NoDate,
           IF f.isSundayRequest /\ f.targetDate # NoDate
           THEN OnDate(f.filtered, f.targetDate) ELSE f.filtered)

\* Lines 74-75 and 313-314: slots is what the loop of lines 40-72 generated.
Generated(slots, preferences) ==
  IF preferences.day = NULL /\ preferences.time = NULL
  THEN [slots |-> SubSeqTo(slots, 2), isSundayRequest |-> FALSE]
  ELSE Filtered(slots, preferences, filterSlotsByPreferences(slots, preferences))

\* The engine: the result array and its _isSundayRequest flag.
AvailabilityResult(preferences, excludeBookingCode) ==
  Generated(GenerateFrom(0, excludeBookingCode), preferences)

getMockAvailableSlots(preferences, excludeBookingCode) ==
  AvailabilityResult(preferences, excludeBookingCode).slots


\* ------------------------------------------------------ dialogStateMachine.js

STATES == [GREETING |-> "greeting", DISCLAIMER |-> "disclaimer",
           TOPIC_SELECTION |-> "topic_selection", TIME_PREFERENCE |-> "time_preference",
           SLOT_OFFER |-> "slot_offer", CONFIRMATION |-> "confirmation",
           BOOKING_COMPLETE |-> "booking_complete", RESCHEDULE |-> "reschedule",
           CANCELLATION |-> "cancellation", AVAILABILITY_CHECK |-> "availability_check",
           COMPLETED |-> "completed"]

\* getNextState as it would be if the topic step advanced on every outcome.
getNextState_TopicAlwaysAdvances(currentState, action, hasTopic) ==
  CASE currentState = STATES.GREETING -> STATES.DISCLAIMER
    [] currentState = STATES.DISCLAIMER ->
         IF action = "acknowledge" THEN STATES.TOPIC_SELECTION ELSE currentState
    [] currentState = STATES.TOPIC_SELECTION -> STATES.TIME_PREFERENCE
    [] currentState = STATES.BOOKING_COMPLETE -> STATES.COMPLETED
    [] OTHER -> currentState

\* The outcome tags getNextState compares with in each state.
RecognizedOutcomes(currentState) ==
  CASE currentState = STATES.DISCLAIMER -> {"acknowledge"}
    [] currentState = STATES.TOPIC_SELECTION -> {"topic_selected"}
    [] currentState = STATES.TIME_PREFERENCE -> {"preferences_collected"}
    [] currentState = STATES.SLOT_OFFER -> {"slot_selected", "no_slots_available"}
    [] currentState = STATES.CONFIRMATION -> {"confirmed", "rejected"}
    [] currentState = STATES.RESCHEDULE -> {"reschedule_complete"}
    [] currentState = STATES.CANCELLATION -> {"cancellation_complete"}
    [] currentState = STATES.AVAILABILITY_CHECK -> {"availability_shown"}
    [] OTHER -> {}

getNextState(currentState, action, hasTopic) ==
  CASE currentState = STATES.GREETING -> STATES.DISCLAIMER
    [] currentState = STATES.DISCLAIMER ->
         IF action = "acknowledge" THEN STATES.TOPIC_SELECTION ELSE currentState
    [] currentState = STATES.TOPIC_SELECTION ->
         IF action = "topic_selected" /\ hasTopic THEN STATES.TIME_PREFERENCE ELSE currentState
    [] currentState = STATES.TIME_PREFERENCE ->
         IF action = "preferences_collected" THEN STATES.SLOT_OFFER ELSE currentState
    [] currentState = STATES.SLOT_OFFER ->
         IF action = "slot_selected" THEN STATES.CONFIRMATION
         ELSE IF action = "no_slots_available" THEN STATES.COMPLETED ELSE currentState
    [] currentState = STATES.CONFIRMATION ->
         IF action = "confirmed" THEN STATES.BOOKING_COMPLETE
         ELSE IF action = "rejected" THEN STATES.SLOT_OFFER ELSE currentState
    [] currentState = STATES.BOOKING_COMPLETE -> STATES.COMPLETED
    [] currentState = STATES.RESCHEDULE ->
         IF action = "reschedule_complete" THEN STATES.COMPLETED ELSE currentState
    [] currentState = STATES.CANCELLATION ->
         IF action = "cancellation_complete" THEN STATES.COMPLETED ELSE currentState
    [] currentState = STATES.AVAILABILITY_CHECK ->
         IF action = "availability_shown" THEN STATES.COMPLETED ELSE currentState
    [] OTHER -> currentState

\* ---------------------------------------------------------- sessionManager.js

Sessions == {"sA", "sB"}

\* offeredSlots null or never assigned (an empty array is a different, truthy value)
NullSlots == <<NoSlot>>

\* sessions.get(id) === undefined
NoSession ==
  [exists |-> FALSE, state |-> NULL, intent |-> NULL, topic |-> NULL, preferences |-> NoPrefs,
   offeredSlots |-> NullSlots, selectedSlot |-> NoSlot, bookingCode |-> NULL,
   bookingCodeToReschedule |-> NULL, bookingCodeToCancel |-> NULL,
   cancellationPending |-> FALSE]

createSession ==
  [NoSession EXCEPT !.exists = TRUE, !.state = STATES.GREETING]

\* ------------------------------------------------------------ user messages

\* What the source's substring tests, regular expressions and extractors yield on each
\* message a user may send is tabulated below.

\* guardrails.js PII_PATTERNS: /\b\d{10}\b/g, /\b\d{12}\b/g, the e-mail pattern and the
\* card pattern, each a global regular expression.
PII_PATTERNS == <<"phone", "account", "email", "card">>

\* What the four patterns find in a message: per pattern, the matches as
\* <<last index a search may start at and still find it, index just after it>>, in order.
PIIMatches(message) ==
  CASE message = "9876543210" -> <<(<<(<<0, 10>>)>>), <<>>, <<>>, <<>>>>
    [] message = "my number is 9876543210" -> <<(<<(<<13, 23>>)>>), <<>>, <<>>, <<>>>>
    [] message = "9876543210 or 9123456780" -> <<(<<(<<0, 10>>), (<<14, 24>>)>>), <<>>, <<>>, <<>>>>
    [] message = "account 123456789012" -> <<<<>>, (<<(<<8, 20>>)>>), <<>>, <<>>>>
    [] message = "mail me at a.b@example.com" -> <<<<>>, <<>>, (<<(<<13, 26>>)>>), <<>>>>
    [] message = "a@b.co 9876543210" -> <<(<<(<<7, 17>>)>>), <<>>, (<<(<<0, 6>>)>>), <<>>>>
    [] message = "card 1234 5678 9012 3456" -> <<<<>>, <<>>, <<>>, (<<(<<5, 24>>)>>)>>
    [] OTHER -> <<<<>>, <<>>, <<>>, <<>>>>

\* RegExp.prototype.test of a global pattern: the search starts at the pattern's lastIndex;
\* a match leaves lastIndex just after it, a failure resets lastIndex to 0.
RegExpTest(matches, from) ==
  LET later == {i \in DOMAIN matches : matches[i][1] >= from}
  IN IF later = {} THEN [found |-> FALSE, lastIndex |-> 0]
     ELSE [found |-> TRUE,
           lastIndex |-> matches[CHOOSE i \in later : \A j \in later : i <= j][2]]

\* The loop of detectPII from pattern p on, the patterns' lastIndex being idx: the value
\* returned and the lastIndex of every pattern afterwards.
RECURSIVE PIILoop(_, _, _)
PIILoop(message, idx, p) ==
  IF p > Len(PII_PATTERNS) THEN [result |-> FALSE, lastIndex |-> idx]
  ELSE LET t == RegExpTest(PIIMatches(message)[p], idx[p])
       IN IF t.found THEN [result |-> TRUE, lastIndex |-> [idx EXCEPT ![p] = t.lastIndex]]
          ELSE PIILoop(message, [idx EXCEPT ![p] = 0], p + 1)

detectPII(message) == PIILoop(message, lastIndex, 1).result

\* The patterns' lastIndex after detectPII(message) has run.
LastIndexAfter(message) == PIILoop(message, lastIndex, 1).lastIndex

\* INVESTMENT_ADVICE_KEYWORDS, by substring of the lower-cased message
detectInvestmentAdvice(message) ==
  message \in {"what should i buy", "recommend a fund"}

\* The last direct call of a helper: none yet.
NoCall == [fn |-> NULL, state |-> NULL, action |-> NULL, hasTopic |-> FALSE,
           message |-> NULL, result |-> NULL,
           hour |-> UNDEF, suffix |-> NULL, targetTimes |-> {},
           live |-> {}]     \* the session ids created and not deleted since

\* lines 309-317 / 1523-1531: book, reschedule, cancel, available, new/another appointment, help
wantsNewAction(message) ==
  message \in {"book appointment", "reschedule", "cancel", "available slots",
               "reschedule NL-CCCC"}

\* groqService.js fallbackIntentDetection: the keywords it looks for, by the intent they
\* stand for.
FallbackKeywords ==
  [reschedule |-> {"reschedule", "change time", "move", "change my booking"},
   cancel |-> {"cancel", "delete booking", "remove booking"},
   availability |-> {"available", "when can", "time slot", "what times"},
   book |-> {"book", "schedule", "appointment", "new booking"}]

\* The keywords that lowerMessage.includes(keyword) finds in a message.
IncludedKeywords(message) ==
  CASE message = "book appointment" -> {"book", "appointment"}
    [] message \in {"reschedule", "reschedule NL-CCCC"} -> {"reschedule", "schedule"}
    [] message = "cancel" -> {"cancel"}
    [] message = "available slots" -> {"available"}
    [] message = "cancel or reschedule my booking" -> {"reschedule", "cancel", "book", "schedule"}
    [] message = "cancel my appointment" -> {"cancel", "appointment"}
    [] message = "what times are available to book" -> {"available", "what times", "book"}
    [] message = "when can i schedule" -> {"when can", "schedule"}
    [] message = "move my booking" -> {"move", "book"}
    [] message = "remove booking" -> {"move", "remove booking", "book"}
    [] message = "delete booking" -> {"delete booking", "book"}
    [] message = "is a time slot available" -> {"available", "time slot"}
    [] message = "new booking" -> {"book", "new booking"}
    [] message = "change my booking" -> {"change my booking", "book"}
    [] message = "change time" -> {"change time"}
    [] OTHER -> {}

\* fallbackIntentDetection as it would be if it looked for the booking keywords first.
fallbackIntentDetection_BookFirst(message) ==
  LET found == IncludedKeywords(message)
  IN IF found \cap FallbackKeywords.book # {} THEN "book"
     ELSE IF found \cap FallbackKeywords.reschedule # {} THEN "reschedule"
     ELSE IF found \cap FallbackKeywords.cancel # {} THEN "cancel"
     ELSE IF found \cap FallbackKeywords.availability # {} THEN "availability"
     ELSE "general"

fallbackIntentDetection(message) ==
  LET found == IncludedKeywords(message)
  IN IF found \cap FallbackKeywords.reschedule # {} THEN "reschedule"
     ELSE IF found \cap FallbackKeywords.cancel # {} THEN "cancel"
     ELSE IF found \cap FallbackKeywords.availability # {} THEN "availability"
     ELSE IF found \cap FallbackKeywords.book # {} THEN "book"
     ELSE "general"

Intents == {"book", "reschedule", "cancel", "availability", "general"}

\* intentHandlers: extractTopic (keyword, else a digit 1-5 standing alone)
extractTopic(message) ==
  CASE message = "kyc" -> "KYC/Onboarding"
    [] message = "option 1" -> "KYC/Onboarding"
    [] message = "option 2" -> "SIP/Mandates"
    [] OTHER -> NULL

\* extractTimePreferences where the time pattern (\b(\d{1,2}):?(\d{2})?\s*(am|pm)?\b)
\* matched `hour` followed by `suffix` (am, pm or nothing): the conversion to 24 hours,
\* the closest slot hour and the term stored for it.
StatedTime_NoonIsAfternoon(hour, suffix) ==
  LET isPM == suffix = "pm"
      hour24 == IF isPM /\ hour # 12 THEN hour + 12
                ELSE IF ~isPM /\ hour = 12 THEN 0 ELSE hour
      closestSlot == IF hour24 = 12 THEN 14 ELSE ClosestSlotHour(hour24)
  IN [day |-> NULL,
      time |-> CASE closestSlot = 10 -> "morning" [] closestSlot = 14 -> "afternoon"
                 [] OTHER -> "evening",
      specificHour |-> hour24]

StatedTime(hour, suffix) ==
  LET isPM == suffix = "pm"
      hour24 == IF isPM /\ hour # 12 THEN hour + 12
                ELSE IF ~isPM /\ hour = 12 THEN 0 ELSE hour
      closestSlot == ClosestSlotHour(hour24)
  IN [day |-> NULL,
      time |-> CASE closestSlot = 10 -> "morning" [] closestSlot = 14 -> "afternoon"
                 [] OTHER -> "evening",
      specificHour |-> hour24]

\* intentHandlers: extractTimePreferences.  A number standing alone is read as an hour,
\* 1 and 2 being closest to 10:00.
extractTimePreferences(message) ==
  CASE message = "monday" -> [day |-> "monday", time |-> NULL, specificHour |-> UNDEF]
    [] message = "tomorrow" -> [day |-> "tomorrow", time |-> NULL, specificHour |-> UNDEF]
    [] message = "option 1" -> StatedTime(1, NULL)
    [] message = "option 2" -> StatedTime(2, NULL)
    [] OTHER -> NoPrefs

\* intentHandlers: isConfirmation ('yes', 'confirm', 'ok', 'okay', 'option 1', 'option 2',
\* a 1 or a 2 standing alone); 'book' contains 'ok'.
isConfirmation(message) == message \in {"yes", "option 1", "option 2", "book appointment"}

\* message includes 'yes' or 'confirm'
saysYes(message) == message = "yes"

\* lines 1036-1037: /\b(\d{1,2})\s*(am|pm)\b|\b(morning|afternoon|evening)\b/i
isTimePreference(message) == FALSE

\* 'option 1' / 'option 2' / a 1 or 2 standing alone: the 1-based option, 0 when none
optionOf(message) ==
  CASE message = "option 1" -> 1 [] message = "option 2" -> 2 [] OTHER -> 0

\* voiceBookingCode.js extractBookingCodeFromVoice, then the regex of the handlers.  A
\* word of six letters is read as a code by the pattern without dash, after the text is
\* put in upper case (lines 55-58 on the normalized text of line 111).
extractBookingCodeFromVoice(message) ==
  CASE message \in Codes -> message
    [] message = "reschedule NL-CCCC" -> "NL-CCCC"
    [] message = "cancel" -> "CA-NCEL"
    [] message = "monday" -> "MO-NDAY"
    [] OTHER -> NULL

\* What detectSlotSelectionIntent may resolve to: the model's JSON answer
\* ({action, selectedSlot}, selectedSlot || null) or, when the call fails, the fallback.
SlotIntents(message) ==
  {[wantsDifferentSlots |-> d, selectedSlot |-> k] : d \in BOOLEAN, k \in 0 .. 2}
    \cup {[wantsDifferentSlots |-> message \in {"another", "no"} /\ optionOf(message) = 0,
            selectedSlot |-> optionOf(message)]}

\* ------------------------------------------------ intentHandlers (conversationEngine.js)

getBooking(bookingCode) ==
  IF bookingCode \in DOMAIN bookings THEN bookings[bookingCode] ELSE NoBooking

\* A handler's first response; data fields that a response type does not carry are null.
Resp(type) ==
  [type |-> type, slots |-> NullSlots, topic |-> NULL, preferences |-> NoPrefs,
   bookingCode |-> NULL, slot |-> NoSlot, previousSlot |-> NoSlot]

NoResponse == Resp("none")       \* responses = []

\* allSlots.filter(s => !(s.date === x.date && s.time === x.time)).slice(0, 2)
ConflictAlternatives(preferences, x, excludeBookingCode) ==
  SubSeqTo(SelectSeq(getMockAvailableSlots(preferences, excludeBookingCode),
                     LAMBDA s : ~(s.date = x.date /\ s.time = x.time)), 2)

\* A conflict response: with the alternatives when there are any.
SlotConflict(type, nextAvailableSlots) ==
  IF Len(nextAvailableSlots) > 0 THEN [Resp(type) EXCEPT !.slots = nextAvailableSlots]
  ELSE Resp(type)

\* code: what generateBookingCode() returns if it is called.
handleBookIntent(session, userMessage, code) ==
  IF session.intent # "book" /\ session.intent # NULL THEN NoResponse
  ELSE CASE session.state \in {STATES.GREETING, STATES.DISCLAIMER} -> Resp("disclaimer")
    [] session.state = STATES.TOPIC_SELECTION ->
         IF extractTopic(userMessage) # NULL
         THEN [Resp("topic_selected") EXCEPT !.topic = extractTopic(userMessage)]
         ELSE Resp("topic_clarification")
    [] session.state = STATES.TIME_PREFERENCE ->
         LET preferences == extractTimePreferences(userMessage)
         IN IF preferences.day # NULL \/ preferences.time # NULL
            THEN [Resp("preferences_collected") EXCEPT !.preferences = preferences]
            ELSE Resp("preferences_clarification")
    [] session.state = STATES.SLOT_OFFER ->
         \* lines 98-110: the slots found now are offered
         IF Len(getMockAvailableSlots(session.preferences, NULL)) > 0
         THEN [Resp("slots_offered") EXCEPT
                 !.slots = getMockAvailableSlots(session.preferences, NULL)]
         ELSE Resp("no_slots")
    [] session.state = STATES.CONFIRMATION ->
         IF ~isConfirmation(userMessage) THEN Resp("confirmation_clarification")
         ELSE IF /\ session.selectedSlot # NoSlot
                 /\ isSlotBooked(session.selectedSlot.date, session.selectedSlot.time, NULL)
              THEN SlotConflict("slot_conflict",
                                ConflictAlternatives(session.preferences, session.selectedSlot,
                                                     NULL))
              ELSE [Resp("booking_confirmed") EXCEPT !.bookingCode = code,
                                                     !.slot = session.selectedSlot]
    [] OTHER -> NoResponse

\* Lines 288-361: an option of the offered list is picked for the booking being moved.
RescheduleSelected(session, selectedSlot, excludeBookingCode, booking) ==
  IF isSlotBooked(selectedSlot.date, selectedSlot.time, excludeBookingCode)
  THEN SlotConflict("reschedule_slot_conflict",
                    ConflictAlternatives(session.preferences, selectedSlot, excludeBookingCode))
  ELSE IF booking.status = "absent" THEN NoResponse
  ELSE [Resp("reschedule_confirmed") EXCEPT !.bookingCode = excludeBookingCode,
                                            !.slot = selectedSlot,
                                            !.previousSlot = booking.selectedSlot]

\* Lines 363-410: new preferences for the booking being moved; its current slot is
\* not offered.
RescheduleOffered(preferences, slots, currentBooking) ==
  LET filteredSlots ==
        IF currentBooking.status # "absent" /\ currentBooking.selectedSlot # NoSlot
        THEN SelectSeq(slots, LAMBDA x : x # currentBooking.selectedSlot)
        ELSE slots
  IN IF preferences.day = NULL /\ preferences.time = NULL
     THEN Resp("reschedule_preferences_clarification")
     ELSE IF Len(filteredSlots) > 0
     THEN [Resp("reschedule_slots_offered") EXCEPT !.slots = SubSeqTo(filteredSlots, 2)]
     ELSE Resp("reschedule_no_slots")

handleRescheduleIntent(session, userMessage) ==
  IF session.state \in {STATES.GREETING, STATES.DISCLAIMER} THEN Resp("reschedule_request")
  ELSE IF session.bookingCodeToReschedule = NULL
  THEN LET bookingCode == extractBookingCodeFromVoice(userMessage)
       IN IF bookingCode = NULL THEN Resp("reschedule_request")
          ELSE IF getBooking(bookingCode).status = "confirmed"
          THEN [Resp("reschedule_booking_found") EXCEPT !.bookingCode = bookingCode]
          ELSE Resp("reschedule_not_found")
  ELSE LET excludeBookingCode == session.bookingCodeToReschedule
           k == optionOf(userMessage)
       IN IF session.offeredSlots # NullSlots /\ k # 0
          THEN IF k > Len(session.offeredSlots) THEN NoResponse
               ELSE RescheduleSelected(session, session.offeredSlots[k], excludeBookingCode,
                                       getBooking(excludeBookingCode))
          ELSE IF session.offeredSlots = NullSlots
          THEN RescheduleOffered(extractTimePreferences(userMessage),
                                 getMockAvailableSlots(extractTimePreferences(userMessage),
                                                       excludeBookingCode),
                                 getBooking(excludeBookingCode))
          ELSE NoResponse

\* The cancel handler as it would be if a code in the message cancelled at once.
handleCancelIntent_NoSecondTurn(session, userMessage) ==
  LET bookingCode == extractBookingCodeFromVoice(userMessage)
  IN IF bookingCode = NULL THEN Resp("cancellation_request")
     ELSE IF getBooking(bookingCode).status = "confirmed"
     THEN [Resp("cancellation_confirmed") EXCEPT !.bookingCode = bookingCode]
     ELSE Resp("cancellation_not_found")

handleCancelIntent(session, userMessage) ==
  LET pendingCode == session.bookingCodeToCancel
      confirming == session.cancellationPending /\ saysYes(userMessage)
      bookingCode == extractBookingCodeFromVoice(userMessage)
  IN IF confirming /\ pendingCode # NULL /\ getBooking(pendingCode).status = "confirmed"
     THEN [Resp("cancellation_confirmed") EXCEPT !.bookingCode = pendingCode]
     ELSE IF bookingCode # NULL
     THEN IF getBooking(bookingCode).status = "confirmed"
          THEN [Resp("cancellation_confirmation") EXCEPT !.bookingCode = bookingCode]
          ELSE Resp("cancellation_not_found")
     ELSE IF confirming
     THEN IF pendingCode # NULL /\ getBooking(pendingCode).status # "absent"
          THEN [Resp("cancellation_confirmed") EXCEPT !.bookingCode = pendingCode]
          ELSE NoResponse
     ELSE Resp("cancellation_request")

handleAvailabilityIntent(session, userMessage) == Resp("availability_shown")

\* ------------------------------------------- processMessage (bookingStore.js 276-1565)

\* Lines 411-438: the date the stated day resolves to.
RequestedDate(preferences) ==
  LET dayLower == preferences.day
      today == getISTToday
      targetDayIndex == CHOOSE i \in DOMAIN DayNames : DayNames[i] = dayLower
      d == ((targetDayIndex - 1) - getISTDayOfWeek(today) + 7) % 7
      daysToAdd == IF d = 0 THEN 7 ELSE d
  IN CASE dayLower = NULL -> NoDate
       [] dayLower = "today" -> formatISTDate(today)
       [] dayLower = "tomorrow" -> formatISTDate(AddDays(today, 1))
       [] \E i \in DOMAIN DayNames : DayNames[i] = dayLower ->
            formatISTDate(AddDays(today, daysToAdd))
       [] OTHER -> NoDate

\* allSlots.filter(s => s.date !== targetDate), at most 2 of them (lines 478-488, 543-553)
NextAvailableOtherDays(targetDate, excludeBookingCode) ==
  SubSeqTo(SelectSeq(getMockAvailableSlots(NoPrefs, excludeBookingCode),
                     LAMBDA x : x.date # targetDate), 2)

\* Lines 440-588: the offer made from the slots found for the preferences.
SlotsCollected(session, preferences, targetDate, cleanSlots, nextAvailableSlots, isFullyBooked) ==
  LET slotsForRequestedDay == IF targetDate # NoDate THEN OnDate(cleanSlots, targetDate)
                              ELSE <<>>
      offer(slots) == [session EXCEPT !.preferences = preferences, !.offeredSlots = slots,
                                      !.state = STATES.SLOT_OFFER]
      askAgain == [session EXCEPT !.preferences = preferences,
                                  !.state = STATES.TIME_PREFERENCE]
  IN IF Len(cleanSlots) > 0
     THEN IF targetDate # NoDate /\ Len(slotsForRequestedDay) = 0
          THEN IF Len(nextAvailableSlots) > 0 THEN offer(nextAvailableSlots) ELSE askAgain
          ELSE offer(cleanSlots)
     ELSE IF targetDate # NoDate /\ isFullyBooked /\ Len(nextAvailableSlots) > 0
          THEN offer(nextAvailableSlots)
          ELSE askAgain

\* Lines 411-440: targetDate is the date the stated day resolved to.
DateResolved(session, preferences, targetDate) ==
  SlotsCollected(session, preferences, targetDate,
                 getMockAvailableSlots(preferences, session.bookingCodeToReschedule),
                 NextAvailableOtherDays(targetDate, session.bookingCodeToReschedule),
                 targetDate # NoDate
                   /\ isDateFullyBooked(targetDate, session.bookingCodeToReschedule))

\* Lines 373-673: the switch on the first response's type, then updateSession.
ApplyResponse(session, r) ==
  CASE r.type = "greeting" ->
         [session EXCEPT !.state = getNextState(session.state, "acknowledge", FALSE)]
    [] r.type = "disclaimer" -> [session EXCEPT !.state = STATES.TOPIC_SELECTION]
    [] r.type = "topic_selected" ->
         [session EXCEPT !.topic = r.topic, !.state = STATES.TIME_PREFERENCE]
    [] r.type = "preferences_collected" ->
         DateResolved(session, r.preferences, RequestedDate(r.preferences))
    [] r.type = "slots_offered" ->
         [session EXCEPT !.offeredSlots = r.slots, !.state = STATES.SLOT_OFFER]
    [] r.type = "booking_confirmed" ->
         [session EXCEPT !.bookingCode = r.bookingCode,
                         !.selectedSlot = IF session.offeredSlots # NullSlots
                                             /\ Len(session.offeredSlots) > 0
                                          THEN session.offeredSlots[1] ELSE NoSlot,
                         !.state = getNextState(session.state, "confirmed", FALSE)]
    [] r.type = "no_slots" ->
         [session EXCEPT !.state = getNextState(session.state, "no_slots_available", FALSE)]
    [] r.type = "reschedule_request" -> [session EXCEPT !.state = STATES.RESCHEDULE]
    [] r.type = "reschedule_booking_found" ->
         [session EXCEPT !.bookingCodeToReschedule = r.bookingCode,
                         !.state = STATES.RESCHEDULE]
    [] r.type = "reschedule_slots_offered" ->
         [session EXCEPT !.offeredSlots = r.slots, !.state = STATES.SLOT_OFFER]
    [] r.type = "reschedule_confirmed" -> [session EXCEPT !.state = STATES.COMPLETED]
    [] r.type \in {"slot_conflict", "reschedule_slot_conflict"} ->
         IF r.slots # NullSlots
         THEN [session EXCEPT !.offeredSlots = r.slots, !.state = STATES.SLOT_OFFER]
         ELSE [session EXCEPT !.state = STATES.TIME_PREFERENCE]
    [] r.type = "cancellation_request" -> [session EXCEPT !.state = STATES.CANCELLATION]
    [] r.type = "cancellation_confirmation" ->
         [session EXCEPT !.cancellationPending = TRUE,
                         !.bookingCodeToCancel = r.bookingCode,
                         !.state = STATES.CANCELLATION]
    [] r.type \in {"cancellation_confirmed", "availability_shown"} ->
         [session EXCEPT !.state = STATES.COMPLETED]
    [] OTHER -> session

\* The locals of a processMessage call that outlive an await, and what the call did.
IdleTurn ==
  [msg |-> NULL,                 \* userMessage
   type |-> "none",              \* primaryResponse.type
   bookingCode |-> NULL,         \* primaryResponse.data.bookingCode
   slot |-> NoSlot,              \* bookingData.selectedSlot / newSlot
   previousSlot |-> NoSlot,      \* primaryResponse.data.previousSlot
   calendarEventId |-> NULL,
   calls |-> {},                 \* functionCalls
   confirming |-> NoSlot,        \* the selected slot a confirming message arrived for
   taken |-> FALSE,              \* that slot was held by a confirmed booking then
   conflicts |-> {},             \* the conflict checks that fired: handler, commit, selection
   alternatives |-> NullSlots,   \* the slots the handler's or the last check's branch computed
   shown |-> NullSlots,          \* session.offeredSlots when the call began in SLOT_OFFER
   picked |-> NoSlot,            \* the offered slot the selection step looked up
   replaced |-> NullSlots,       \* the slots the selection step's conflict branch computed
   redirect |-> NoDate,          \* the Monday after the rest day the stated day resolved to
   guardrail |-> NULL,           \* debug.guardrail of the value returned
   resetFrom |-> NULL,           \* the state the session was in when this call reset it
   committed |-> FALSE,          \* createBooking was called
   changes |-> 0,                \* registry changes this session id has made so far
   stages |-> UNDEF,             \* how far along FlowStages the session id has come
   staged |-> FALSE]             \* this call took it one stage further

\* Lines 321-332 / 1535-1546: reset to start fresh.
MaxChanges == 1     \* a session id is followed until it has changed the registry this often

\* The reset as it would be if it kept the booking code of the finished conversation.
ResetSession_KeepsBookingCode(session) ==
  [session EXCEPT !.state = STATES.GREETING, !.intent = NULL, !.topic = NULL,
                  !.preferences = NoPrefs, !.offeredSlots = NullSlots,
                  !.selectedSlot = NoSlot,
                  !.bookingCodeToReschedule = NULL, !.bookingCodeToCancel = NULL,
                  !.cancellationPending = FALSE]

ResetSession(session) ==
  [session EXCEPT !.state = STATES.GREETING, !.intent = NULL, !.topic = NULL,
                  !.preferences = NoPrefs, !.offeredSlots = NullSlots,
                  !.selectedSlot = NoSlot, !.bookingCode = NULL,
                  !.bookingCodeToReschedule = NULL, !.bookingCodeToCancel = NULL,
                  !.cancellationPending = FALSE]

isCompleted(session) == session.state \in {STATES.COMPLETED, STATES.BOOKING_COMPLETE}

\* The end of the call as it would be if a new request reset the session in any state.
TurnEnd_ResetsAnywhere(session, t) ==
  IF wantsNewAction(t.msg)
  THEN [session |-> ResetSession(session), pc |-> "redetect_intent",
        turn |-> [t EXCEPT !.resetFrom = session.state]]
  ELSE [session |-> session, pc |-> "idle", turn |-> t]

\* Lines 1518-1552, then the return of 1555.  (The block of lines 1337-1516 needs state
\* CONFIRMATION and a message with 'yes' or 'confirm' after a handler that returned neither
\* booking_confirmed nor slot_conflict, which isConfirmation rules out.)
TurnEnd(session, t) ==
  IF isCompleted(session) /\ wantsNewAction(t.msg)
  THEN [session |-> ResetSession(session), pc |-> "redetect_intent",
        turn |-> [t EXCEPT !.resetFrom = session.state]]
  ELSE [session |-> session, pc |-> "idle", turn |-> t]

\* Line 677, evaluated on the session object that updateSession has already changed.
justTransitionedToSlotOffer(session, newState) ==
  session.state = STATES.TIME_PREFERENCE /\ newState = STATES.SLOT_OFFER

\* Lines 1039-1041: the slot selection block is entered.
SelectionOpen(session, userMessage) ==
  /\ session.state = STATES.SLOT_OFFER
  /\ session.offeredSlots # NullSlots /\ Len(session.offeredSlots) > 0
  /\ session.bookingCodeToReschedule = NULL
  /\ ~isTimePreference(userMessage)
  /\ ~justTransitionedToSlotOffer(session, session.state)

\* Lines 353-370: the handler the session's intent routes to, and its first response.
Handled(session, userMessage, code) ==
  CASE session.intent = "book" -> handleBookIntent(session, userMessage, code)
    [] session.intent = "reschedule" -> handleRescheduleIntent(session, userMessage)
    [] session.intent = "cancel" -> handleCancelIntent(session, userMessage)
    [] session.intent = "availability" -> handleAvailabilityIntent(session, userMessage)
    [] OTHER -> Resp("general")

\* The call's locals once the first response r is known.
Responded(t, r) ==
  [t EXCEPT !.type = r.type, !.bookingCode = r.bookingCode, !.slot = r.slot,
            !.previousSlot = r.previousSlot,
            !.conflicts = IF r.type = "slot_conflict" THEN {"handler"} ELSE {},
            !.alternatives = IF r.type = "slot_conflict"
                             THEN (IF r.slots = NullSlots THEN <<>> ELSE r.slots)
                             ELSE NullSlots,
            !.redirect = IF /\ r.type = "preferences_collected"
                            /\ RequestedDate(r.preferences) # NoDate
                            /\ DayOfWeek(RequestedDate(r.preferences)) = 0
                         THEN RequestedDate(r.preferences) + 1 ELSE NoDate]

\* Lines 677-1041: the block the response leads to, up to its first await or the return.
\* The result of a confirmed booking, reschedule or cancellation is followed to the
\* caller ("respond"); the other results are not looked at again.
Continued(updatedSession, t1, r, booking) ==
  CASE r.type = "booking_confirmed" ->
         IF r.slot = NoSlot
         THEN [session |-> [updatedSession EXCEPT !.state = STATES.BOOKING_COMPLETE],
               pc |-> "respond", turn |-> [t1 EXCEPT !.calls = {"error_invalid_slot"}]]
         ELSE [session |-> updatedSession, pc |-> "commit_check", turn |-> t1]
    [] r.type = "reschedule_confirmed" ->
         IF booking.calendarEventId # NULL
         THEN [session |-> updatedSession, pc |-> "update_calendar", turn |-> t1]
         ELSE [session |-> updatedSession, pc |-> "respond", turn |-> t1]
    [] r.type = "cancellation_confirmed" ->
         IF booking.calendarEventId # NULL
         THEN [session |-> updatedSession, pc |-> "delete_calendar", turn |-> t1]
         ELSE [session |-> updatedSession, pc |-> "cancel_sheet", turn |-> t1]
    [] OTHER ->
         IF SelectionOpen(updatedSession, t1.msg)
         THEN [session |-> updatedSession, pc |-> "slot_intent", turn |-> t1]
         ELSE TurnEnd(updatedSession, t1)

\* Lines 373-673: the response switch applied to the handler's first response r.
Switched(session, t, r) ==
  Continued(ApplyResponse(session, r), Responded(t, r), r, getBooking(r.bookingCode))

\* Lines 338-1041 after the intent is known: the handler, the response switch, and the
\* start of the block the response leads to.  Runs up to the next await or to the return.
Route(session, t, code) == Switched(session, t, Handled(session, t.msg, code))

\* What is left of a call's locals once it has returned: the record of what it did.
Returned(t) ==
  [IdleTurn EXCEPT !.changes = t.changes, !.confirming = t.confirming, !.taken = t.taken,
                   !.conflicts = t.conflicts, !.alternatives = t.alternatives,
                   !.picked = t.picked, !.replaced = t.replaced, !.committed = t.committed,
                   !.redirect = t.redirect, !.guardrail = t.guardrail]

\* What generateBookingCode() may return where handleBookIntent calls it (line 214, in
\* state CONFIRMATION); elsewhere no code is generated.
GeneratedCodes(session) ==
  IF session.state = STATES.CONFIRMATION /\ session.intent = "book" THEN Codes ELSE {NULL}

\* The stages of the booking flow, in the order of handleBookIntent's branches: the
\* responses topic_selected (line 73) and preferences_collected (line 87), the entry to
\* CONFIRMATION (bookingStore.js lines 1195 and 1325), the response booking_confirmed
\* (line 226).
FlowStages == <<"topic_selected", "preferences_collected", STATES.CONFIRMATION, "booking_confirmed">>

\* Stage k happened: it counts when the stages before it are passed and were passed by
\* earlier calls.
Staged(t, k, happened) ==
  IF happened /\ t.stages = k - 1 /\ ~t.staged
  THEN [t EXCEPT !.stages = k, !.staged = TRUE]
  ELSE t

\* The record of the flow after a step that takes the session from `session` to
\* res.session and the call's locals from t to res.turn.  A reset (lines 321-332 and
\* 1535-1546) starts the record again.  The record is kept for the session ids whose
\* initial record is a number; the two concurrent sessions of Spec start without one.
Flowed(session, t, res) ==
  IF t.stages = UNDEF
  THEN [stages |-> UNDEF, staged |-> FALSE]
  ELSE IF res.turn.resetFrom # NULL /\ (t.msg = NULL \/ t.resetFrom = NULL)
  THEN [stages |-> 0, staged |-> FALSE]
  ELSE LET from == [stages |-> t.stages, staged |-> t.staged]
           typed(k) == t.type # res.turn.type /\ res.turn.type = FlowStages[k]
           entered == /\ session.state # STATES.CONFIRMATION
                      /\ res.session.state = STATES.CONFIRMATION
       IN Staged(Staged(Staged(Staged(from, 1, typed(1)), 2, typed(2)), 3, entered),
                 4, typed(4))

\* result on its way to the controller ("respond") is delivered first: the controller's
\* continuation is a promise job, run before the event loop takes the next callback.
Becomes(s, res) ==
  /\ \A o \in Sessions \ {s} : pc[o] # "respond"
  /\ sessions' = [sessions EXCEPT ![s] = res.session]
  /\ pc' = [pc EXCEPT ![s] = res.pc]
  /\ turn' = [turn EXCEPT ![s] =
                [(IF res.pc = "idle" THEN Returned(res.turn) ELSE res.turn) EXCEPT
                   !.stages = Flowed(sessions[s], turn[s], res).stages,
                   !.staged = res.pc # "idle" /\ Flowed(sessions[s], turn[s], res).staged]]

\* Lines 284-302: a guardrail matched; the call returns the guardrail's message and the
\* session as updateSession(sessionId, {}) leaves it.
GuardrailReturn(session, t, guardrail) ==
  [session |-> session, pc |-> "idle",
   turn |-> [t EXCEPT !.type = "guardrail", !.guardrail = guardrail]]

\* processMessage(s, userMessage) is called: lines 276-341, and on to the next await.
Receive(s, userMessage) ==
  /\ pc[s] = "idle"
  /\ turn[s].changes < MaxChanges
  /\ LET session == IF sessions[s].exists THEN sessions[s] ELSE createSession
         confirming == /\ session.state = STATES.CONFIRMATION /\ isConfirmation(userMessage)
                       /\ session.selectedSlot # NoSlot
         restart == isCompleted(session) /\ wantsNewAction(userMessage)
         t == [IdleTurn EXCEPT !.changes = turn[s].changes, !.msg = userMessage,
                               !.confirming = IF confirming THEN session.selectedSlot ELSE NoSlot,
                               !.taken = /\ confirming
                                         /\ session.selectedSlot \in getBookedSlots(NULL),
                               !.resetFrom = IF restart THEN session.state ELSE NULL,
                               !.shown = IF session.state = STATES.SLOT_OFFER
                                         THEN session.offeredSlots ELSE NullSlots]
         fresh == IF restart THEN ResetSession(session) ELSE session
     IN IF detectPII(userMessage)
        THEN Becomes(s, GuardrailReturn(session, t, "PII detected"))
        ELSE IF detectInvestmentAdvice(userMessage)
        THEN Becomes(s, GuardrailReturn(session, t, "Investment advice detected"))
        ELSE IF fresh.intent = NULL \/ fresh.state \in {STATES.GREETING, STATES.DISCLAIMER}
        THEN Becomes(s, [session |-> fresh, pc |-> "detect_intent", turn |-> t])
        ELSE \E code \in GeneratedCodes(fresh) : Becomes(s, Route(fresh, t, code))
  /\ lastIndex' = LastIndexAfter(userMessage)
  /\ UNCHANGED <<now, tzOffset, bookings, query, call>>

\* detectIntent resolves (lines 341-343): the classifier's answer or, when the call
\* fails, the keyword fallback.
IntentDetected(s) ==
  /\ pc[s] = "detect_intent"
  /\ \E intent \in Intents \cup {fallbackIntentDetection(turn[s].msg)} :
       LET session == [sessions[s] EXCEPT !.intent = intent]
       IN \E code \in GeneratedCodes(session) : Becomes(s, Route(session, turn[s], code))
  /\ UNCHANGED <<now, tzOffset, bookings, query, lastIndex, call>>

\* bookingStore.js createBooking / updateBooking / cancelBooking: the registry afterwards.
createBooking(bookingCode, topic, selectedSlot, calendarEventId) ==
  [bookings EXCEPT ![bookingCode] =
     [status |-> "confirmed", selectedSlot |-> selectedSlot, topic |-> topic,
      calendarEventId |-> calendarEventId, previousSlot |-> NoSlot, cancelled |-> 0]]

updateBooking(bookingCode, selectedSlot, previousSlot) ==
  IF getBooking(bookingCode).status = "absent" THEN bookings
  ELSE [bookings EXCEPT ![bookingCode].selectedSlot = selectedSlot,
                        ![bookingCode].previousSlot = previousSlot]

MaxCancels == 2     \* cancelledAt is rewritten by every cancelBooking; counted up to here

\* cancelBooking as it would be if it left bookings without a calendar event alone.
cancelBooking_NeedsEvent(bookingCode) ==
  IF getBooking(bookingCode).status = "absent" \/ getBooking(bookingCode).calendarEventId = NULL
  THEN bookings
  ELSE [bookings EXCEPT ![bookingCode].status = "cancelled",
                        ![bookingCode].cancelled =
                           IF @ < MaxCancels THEN @ + 1 ELSE @]

\* cancelBooking as it would be if it removed the record from the registry.
cancelBooking_Deletes(bookingCode) ==
  IF getBooking(bookingCode).status = "absent" THEN bookings
  ELSE [bookings EXCEPT ![bookingCode] = NoBooking]

cancelBooking(bookingCode) ==
  IF getBooking(bookingCode).status = "absent" THEN bookings
  ELSE [bookings EXCEPT ![bookingCode].status = "cancelled",
                        ![bookingCode].cancelled =
                           IF @ < MaxCancels THEN @ + 1 ELSE @]

\* The catch branches as they would be if they recorded nothing.
Outcome_FailureUnrecorded(ok, tag) == IF ok THEN tag ELSE "none"

\* An awaited external call settles: resolved (TRUE) or rejected and caught (FALSE).
Outcome(ok, tag) == IF ok THEN tag ELSE tag \o "_failed"

\* Lines 707-749: the selected slot checked once more; nextAvailableSlots is what the
\* conflict branch computes.
Checked(finalSession, t, nextAvailableSlots) ==
  LET conflictTurn == [t EXCEPT !.conflicts = @ \cup {"commit"},
                                !.alternatives = nextAvailableSlots]
  IN IF isSlotBooked(t.slot.date, t.slot.time, NULL)
     THEN IF Len(nextAvailableSlots) > 0
          THEN [session |-> [finalSession EXCEPT !.offeredSlots = nextAvailableSlots,
                                                 !.selectedSlot = NoSlot,
                                                 !.state = STATES.SLOT_OFFER],
                pc |-> "idle", turn |-> conflictTurn]
          ELSE [session |-> [finalSession EXCEPT !.state = STATES.TIME_PREFERENCE,
                                                 !.selectedSlot = NoSlot],
                pc |-> "idle", turn |-> conflictTurn]
     ELSE [session |-> finalSession, pc |-> "create_calendar", turn |-> t]

\* Lines 706-749: the last check before the external calls of a confirming call.
CommitCheck(s) ==
  /\ pc[s] = "commit_check"
  /\ Becomes(s, Checked(sessions[s], turn[s],
                        ConflictAlternatives(sessions[s].preferences, turn[s].slot, NULL)))
  /\ UNCHANGED <<now, tzOffset, bookings, query, lastIndex, call>>

\* Lines 756-767: createCalendarEvent settles; appendBookingToSheet is called.
CalendarCreated(s) ==
  /\ pc[s] = "create_calendar"
  /\ \E ok \in BOOLEAN :
       Becomes(s, [session |-> sessions[s], pc |-> "append_sheet",
                   turn |-> [turn[s] EXCEPT
                               !.calendarEventId = IF ok THEN "evt" ELSE NULL,
                               !.calls = @ \cup {Outcome(ok, "create_calendar_hold")}]])
  /\ UNCHANGED <<now, tzOffset, bookings, query, lastIndex, call>>

\* Lines 771-783: appendBookingToSheet settles; createBookingEmailDraft is called.
SheetAppended(s) ==
  /\ pc[s] = "append_sheet"
  /\ \E ok \in BOOLEAN :
       Becomes(s, [session |-> sessions[s], pc |-> "email_draft",
                   turn |-> [turn[s] EXCEPT
                               !.calls = @ \cup {Outcome(ok, "append_to_sheet")}]])
  /\ UNCHANGED <<now, tzOffset, bookings, query, lastIndex, call>>

\* Lines 788-838: createBookingEmailDraft settles; createBooking; the call returns.
EmailDrafted(s) ==
  /\ pc[s] = "email_draft"
  /\ \E ok \in BOOLEAN :
       Becomes(s, [session |-> [sessions[s] EXCEPT !.bookingCode = turn[s].bookingCode,
                                                   !.state = STATES.BOOKING_COMPLETE],
                   pc |-> "respond",
                   turn |-> [turn[s] EXCEPT
                               !.calls = @ \cup {Outcome(ok, "create_email_draft")},
                               !.committed = TRUE, !.changes = @ + 1]])
  /\ bookings' = createBooking(turn[s].bookingCode, sessions[s].topic, turn[s].slot,
                               turn[s].calendarEventId)
  /\ UNCHANGED <<now, tzOffset, query, lastIndex, call>>

\* Lines 853-863: updateCalendarEvent settles; updateBookingInSheet is called.
CalendarUpdated(s) ==
  /\ pc[s] = "update_calendar"
  /\ \E ok \in BOOLEAN :
       Becomes(s, [session |-> sessions[s], pc |-> "update_sheet",
                   turn |-> [turn[s] EXCEPT
                               !.calls = @ \cup {Outcome(ok, "update_calendar_hold")}]])
  /\ UNCHANGED <<now, tzOffset, bookings, query, lastIndex, call>>

\* Lines 867-878: updateBookingInSheet settles; createRescheduleEmailDraft is called.
SheetUpdated(s) ==
  /\ pc[s] = "update_sheet"
  /\ \E ok \in BOOLEAN :
       Becomes(s, [session |-> sessions[s], pc |-> "reschedule_email",
                   turn |-> [turn[s] EXCEPT !.calls = @ \cup {Outcome(ok, "log_reschedule")}]])
  /\ UNCHANGED <<now, tzOffset, bookings, query, lastIndex, call>>

\* Lines 882-931: createRescheduleEmailDraft settles; updateBooking; the call returns.
RescheduleEmailDrafted(s) ==
  /\ pc[s] = "reschedule_email"
  /\ \E ok \in BOOLEAN :
       Becomes(s, [session |-> [sessions[s] EXCEPT !.state = STATES.COMPLETED],
                   pc |-> "respond",
                   turn |-> [turn[s] EXCEPT
                               !.calls = @ \cup {Outcome(ok, "create_reschedule_email_draft")},
                               !.changes = @ + 1]])
  /\ bookings' = updateBooking(turn[s].bookingCode, turn[s].slot, turn[s].previousSlot)
  /\ UNCHANGED <<now, tzOffset, query, lastIndex, call>>

\* Lines 956-962: deleteCalendarEvent settles; markBookingCancelledInSheet is called.
CalendarDeleted(s) ==
  /\ pc[s] = "delete_calendar"
  /\ \E ok \in BOOLEAN :
       Becomes(s, [session |-> sessions[s], pc |-> "cancel_sheet",
                   turn |-> [turn[s] EXCEPT
                               !.calls = @ \cup {Outcome(ok, "remove_calendar_hold")}]])
  /\ UNCHANGED <<now, tzOffset, bookings, query, lastIndex, call>>

\* Lines 971-977: markBookingCancelledInSheet settles; createCancellationEmailDraft is called.
CancellationLogged(s) ==
  /\ pc[s] = "cancel_sheet"
  /\ \E ok \in BOOLEAN :
       Becomes(s, [session |-> sessions[s], pc |-> "cancel_email",
                   turn |-> [turn[s] EXCEPT
                               !.calls = @ \cup {Outcome(ok, "log_cancellation")}]])
  /\ UNCHANGED <<now, tzOffset, bookings, query, lastIndex, call>>

\* Lines 982-1027: createCancellationEmailDraft settles; cancelBooking; the call returns.
CancellationEmailDrafted(s) ==
  /\ pc[s] = "cancel_email"
  /\ \E ok \in BOOLEAN :
       Becomes(s, [session |-> [sessions[s] EXCEPT !.state = STATES.COMPLETED],
                   pc |-> "respond",
                   turn |-> [turn[s] EXCEPT
                               !.calls = @ \cup {Outcome(ok, "create_cancellation_email_draft")},
                               !.changes = @ + 1]])
  /\ bookings' = cancelBooking(turn[s].bookingCode)
  /\ UNCHANGED <<now, tzOffset, query, lastIndex, call>>

\* ChatController.js processMessage, lines 24-34: the awaited call has returned and the
\* controller sends its message, session and functionCalls to the client.
ResultSent(s) ==
  /\ pc[s] = "respond"
  /\ Becomes(s, [session |-> sessions[s], pc |-> "idle", turn |-> turn[s]])
  /\ UNCHANGED <<now, tzOffset, bookings, query, lastIndex, call>>

\* The selection step as it would be if a conflict left the offered list as it was.
Looked_KeepsOffer(session, picked, selectedSlot, allSlots, otherDays) ==
  LET excludeBookingCode == session.bookingCodeToReschedule
      sameDaySlots == OnDate(allSlots, selectedSlot.date)
      nextAvailableSlots == SubSeqTo(SelectSeq(allSlots,
                                               LAMBDA x : x.date # selectedSlot.date), 2)
      offer(slots, prefs) ==
        [session |-> [session EXCEPT !.preferences = prefs],
         pc |-> "idle",
         turn |-> [picked EXCEPT !.conflicts = @ \cup {"selection"}, !.replaced = slots]]
      giveUp ==
        [session |-> [session EXCEPT !.state = STATES.TIME_PREFERENCE],
         pc |-> "idle",
         turn |-> [picked EXCEPT !.conflicts = @ \cup {"selection"}, !.replaced = <<>>]]
  IN IF isSlotBooked(selectedSlot.date, selectedSlot.time, excludeBookingCode)
     THEN IF isDateFullyBooked(selectedSlot.date, excludeBookingCode)
          THEN IF Len(otherDays) > 0 THEN offer(otherDays, NoPrefs) ELSE giveUp
          ELSE IF Len(sameDaySlots) > 0 THEN offer(sameDaySlots, session.preferences)
          ELSE IF Len(nextAvailableSlots) > 0
               THEN offer(nextAvailableSlots, session.preferences)
          ELSE giveUp
     ELSE [session |-> [session EXCEPT !.selectedSlot = selectedSlot,
                                       !.state = STATES.CONFIRMATION],
           pc |-> "idle", turn |-> picked]

\* Lines 1093-1201 and 1218-1331: the looked-up option is checked against the registry;
\* a free slot is selected, a taken one replaced by alternatives.  picked: the call's
\* locals; allSlots, otherDays: what the conflict branches get from the engine.
Looked(session, picked, selectedSlot, allSlots, otherDays) ==
  LET excludeBookingCode == session.bookingCodeToReschedule
      sameDaySlots == OnDate(allSlots, selectedSlot.date)
      nextAvailableSlots == SubSeqTo(SelectSeq(allSlots,
                                               LAMBDA x : x.date # selectedSlot.date), 2)
      offer(slots, prefs) ==
        [session |-> [session EXCEPT !.offeredSlots = slots, !.preferences = prefs],
         pc |-> "idle",
         turn |-> [picked EXCEPT !.conflicts = @ \cup {"selection"}, !.replaced = slots]]
      giveUp ==
        [session |-> [session EXCEPT !.state = STATES.TIME_PREFERENCE],
         pc |-> "idle",
         turn |-> [picked EXCEPT !.conflicts = @ \cup {"selection"}, !.replaced = <<>>]]
  IN IF isSlotBooked(selectedSlot.date, selectedSlot.time, excludeBookingCode)
     THEN IF isDateFullyBooked(selectedSlot.date, excludeBookingCode)
          THEN IF Len(otherDays) > 0 THEN offer(otherDays, NoPrefs) ELSE giveUp
          ELSE IF Len(sameDaySlots) > 0 THEN offer(sameDaySlots, session.preferences)
          ELSE IF Len(nextAvailableSlots) > 0
               THEN offer(nextAvailableSlots, session.preferences)
          ELSE giveUp
     ELSE [session |-> [session EXCEPT !.selectedSlot = selectedSlot,
                                       !.state = STATES.CONFIRMATION],
           pc |-> "idle", turn |-> picked]

\* Lines 1088-1092 and 1213-1217: the option is looked up in the offered list.
SelectOrConflict(session, t, selectedSlot) ==
  Looked(session, [t EXCEPT !.picked = selectedSlot], selectedSlot,
         getMockAvailableSlots(session.preferences, session.bookingCodeToReschedule),
         NextAvailableOtherDays(selectedSlot.date, session.bookingCodeToReschedule))

\* Lines 1047-1082: the customer wants other slots; newSlots are those not offered yet.
MoreSlots(session, t, newSlots) ==
  IF Len(newSlots) > 0
  THEN [session |-> [session EXCEPT
                       !.offeredSlots = session.offeredSlots \o SubSeqTo(newSlots, 2)],
        pc |-> "idle", turn |-> t]
  ELSE [session |-> [session EXCEPT !.state = STATES.TIME_PREFERENCE],
        pc |-> "idle", turn |-> t]

\* Lines 1044-1334: detectSlotSelectionIntent settles, and on to the return.
SlotSelection(session, t, slotIntent) ==
  LET offered == session.offeredSlots
      k == optionOf(t.msg)
  IN IF slotIntent.wantsDifferentSlots
     THEN MoreSlots(session, t,
                    NotIn(getMockAvailableSlots(session.preferences, NULL), offered))
     ELSE IF slotIntent.selectedSlot # 0 /\ slotIntent.selectedSlot <= Len(offered)
     THEN SelectOrConflict(session, t, offered[slotIntent.selectedSlot])
     ELSE IF k # 0 /\ k <= Len(offered)
     THEN SelectOrConflict(session, t, offered[k])
     ELSE TurnEnd(session, t)

SlotIntentDetected(s) ==
  /\ pc[s] = "slot_intent"
  /\ \E slotIntent \in SlotIntents(turn[s].msg) :
       Becomes(s, SlotSelection(sessions[s], turn[s], slotIntent))
  /\ UNCHANGED <<now, tzOffset, bookings, query, lastIndex, call>>

\* Lines 1549-1550: the intent of the message that restarted the conversation.
IntentRedetected(s) ==
  /\ pc[s] = "redetect_intent"
  /\ \E intent \in Intents \cup {fallbackIntentDetection(turn[s].msg)} :
       Becomes(s, [session |-> [sessions[s] EXCEPT !.intent = intent],
                   pc |-> "idle", turn |-> turn[s]])
  /\ UNCHANGED <<now, tzOffset, bookings, query, lastIndex, call>>

\* ------------------------------------------- the availability engine, called directly

ClockDays == 7          \* the clock's day ranges over ClockDays consecutive days

\* The date the initial registry's bookings are on: the Monday of the second week after
\* the epoch.
BookDay == CHOOSE d \in 8 .. 14 : DayOfWeek(d) = 1

CodeSeq == <<"NL-AAAA", "NL-BBBB", "NL-CCCC">>

StoredBooking(status, slot) ==
  [status |-> status, selectedSlot |-> slot, topic |-> "KYC/Onboarding",
   calendarEventId |-> "evt", previousSlot |-> NoSlot, cancelled |-> IF status = "cancelled" THEN 1 ELSE 0]

\* Registries loaded from the bookings file: code i holds BookDay's i-th time; the first
\* code may be confirmed, cancelled or absent, the others confirmed or absent.
LoadedRegistries ==
  {[c \in Codes |->
      LET i == CHOOSE j \in DOMAIN CodeSeq : CodeSeq[j] = c
      IN IF st[i] = "absent" THEN NoBooking
         ELSE StoredBooking(st[i], Slot(BookDay, timeSlots[i]))] :
     st \in {f \in [DOMAIN CodeSeq -> {"absent", "confirmed", "cancelled"}] :
               \A j \in DOMAIN CodeSeq : j > 1 => f[j] # "cancelled"}}

PrefInputs ==
  {[day |-> d, time |-> t[1], specificHour |-> t[2]] :
     d \in {NULL, "today", "tomorrow", "sunday", "monday", "tuesday", "wednesday",
            "thursday", "friday", "saturday"},
     t \in {<<NULL, UNDEF>>, <<"morning", UNDEF>>, <<"afternoon", UNDEF>>,
            <<"evening", UNDEF>>, <<"noon", UNDEF>>, <<"afternoon", 15>>,
            <<"morning", 12>>, <<"evening", 17>>}}

NoQuery == [called |-> FALSE, preferences |-> NoPrefs, excludeBookingCode |-> NULL,
            slots |-> <<>>, isSundayRequest |-> FALSE, repeated |-> FALSE, again |-> <<>>]

InitAvail ==
  /\ now \in {(d * MinutesPerDay + m) - IST_OFFSET_MIN :    \* from the Tuesday before
                d \in (BookDay - 6) .. (BookDay - 6 + ClockDays - 1),
                m \in {9 * 60, 10 * 60 + 30, 17 * 60}}     \* IST 09:00, 10:30, 17:00
  /\ tzOffset \in {0 - 330, 0, 0 - 540}     \* hosts in IST (UTC+5:30), in UTC, in UTC+9
  /\ bookings \in LoadedRegistries
  /\ query = NoQuery
  /\ sessions = [s \in Sessions |-> NoSession]
  /\ pc = [s \in Sessions |-> "idle"]
  /\ turn = [s \in Sessions |-> IdleTurn]
  /\ lastIndex = [p \in DOMAIN PII_PATTERNS |-> 0]
  /\ call = NoCall

\* A caller invokes getMockAvailableSlots(preferences, excludeBookingCode).
AvQuery ==
  /\ ~query.called
  /\ \E p \in PrefInputs, x \in {NULL, "NL-AAAA"} :
       LET r == AvailabilityResult(p, x)
       IN query' = [NoQuery EXCEPT !.called = TRUE, !.preferences = p,
                                   !.excludeBookingCode = x, !.slots = r.slots,
                                   !.isSundayRequest = r.isSundayRequest]
  /\ UNCHANGED <<now, tzOffset, bookings, sessions, pc, turn, lastIndex, call>>

\* The caller is done with the result.
AvReturn ==
  /\ query.called
  /\ query' = NoQuery
  /\ UNCHANGED <<now, tzOffset, bookings, sessions, pc, turn, lastIndex, call>>

\* The caller invokes it once more with the same arguments.
AvRepeat ==
  /\ query.called /\ ~query.repeated
  /\ query' = [query EXCEPT
                 !.repeated = TRUE,
                 !.again = getMockAvailableSlots(query.preferences, query.excludeBookingCode)]
  /\ UNCHANGED <<now, tzOffset, bookings, sessions, pc, turn, lastIndex, call>>

NextAvail == AvQuery \/ AvRepeat \/ AvReturn

SpecAvail == InitAvail /\ [][NextAvail]_vars

\* ------------------------------------------------- concurrent conversations

\* The conversations run on an IST host on the Saturday before BookDay, at 09:00 IST.
ServiceNow == ((BookDay - 2) * MinutesPerDay + 9 * 60) - IST_OFFSET_MIN

\* Codes of bookings other customers made, loaded from the bookings file.
FileCodes ==
  <<"NL-F2F2", "NL-F3F3", "NL-F4F4", "NL-F5F5", "NL-F6F6", "NL-F7F7", "NL-F8F8",
    "NL-F9F9", "NL-G2G2", "NL-G3G3", "NL-G4G4", "NL-G5G5", "NL-G6G6", "NL-G7G7",
    "NL-G8G8", "NL-G9G9", "NL-H2H2", "NL-H3H3", "NL-H4H4", "NL-H5H5", "NL-H6H6">>

\* One earlier booking, made through the service: NL-AAAA on BookDay at 16:00.
OneBooking ==
  [c \in Codes |-> IF c = "NL-AAAA" THEN StoredBooking("confirmed", Slot(BookDay, "16:00"))
                   ELSE NoBooking]

\* A nearly full calendar: other customers hold every slot of the window but BookDay 10:00.
\* The window that opens at ServiceNow has 21 slots: Saturday, and Monday to Saturday.
NearlyFull ==
  [c \in Codes \cup {FileCodes[i] : i \in DOMAIN FileCodes} |->
     IF c \in Codes \/ c = FileCodes[4] THEN NoBooking
     ELSE LET i == CHOOSE j \in DOMAIN FileCodes : FileCodes[j] = c
          IN StoredBooking("confirmed",
                           Slot(IF i <= 3 THEN BookDay - 2 ELSE BookDay + ((i - 4) \div 3),
                                timeSlots[((i - 1) % 3) + 1]))]

Init ==
  /\ now = ServiceNow
  /\ tzOffset = 0 - IST_OFFSET_MIN
  /\ bookings \in {OneBooking, NearlyFull}
  /\ query = NoQuery
  /\ sessions = [s \in Sessions |-> NoSession]
  /\ pc = [s \in Sessions |-> "idle"]
  /\ turn = [s \in Sessions |-> IdleTurn]
  /\ lastIndex = [p \in DOMAIN PII_PATTERNS |-> 0]
  /\ call = NoCall

Next ==
  \E s \in Sessions :
     \/ \E userMessage \in {"book appointment", "kyc", "monday", "option 1", "yes",
                            "reschedule", "cancel", "NL-AAAA", "available slots"} :
          Receive(s, userMessage)
     \/ IntentDetected(s)
     \/ CommitCheck(s)
     \/ CalendarCreated(s)
     \/ SheetAppended(s)
     \/ EmailDrafted(s)
     \/ CalendarUpdated(s)
     \/ SheetUpdated(s)
     \/ RescheduleEmailDrafted(s)
     \/ CalendarDeleted(s)
     \/ CancellationLogged(s)
     \/ CancellationEmailDrafted(s)
     \/ ResultSent(s)
     \/ SlotIntentDetected(s)
     \/ IntentRedetected(s)

Spec == Init /\ [][Next]_vars

\* ------------------------------------------------- one conversation

\* One customer alone with the service: booking with the day stated as 'tomorrow' (a
\* Sunday: the service runs on a Saturday) or by name, sending personal data or asking for
\* advice, and coming back to reschedule or cancel with a code.
SoloMessages == {"book appointment", "kyc", "tomorrow", "monday", "option 1", "yes", "no",
                 "reschedule", "cancel", "NL-AAAA", "NL-CCCC", "reschedule NL-CCCC",
                 "mail me at a.b@example.com", "what should i buy"}

NextSolo ==
  \/ \E userMessage \in SoloMessages : Receive("sA", userMessage)
  \/ IntentDetected("sA")
  \/ CommitCheck("sA")
  \/ CalendarCreated("sA")
  \/ SheetAppended("sA")
  \/ EmailDrafted("sA")
  \/ CalendarUpdated("sA")
  \/ SheetUpdated("sA")
  \/ RescheduleEmailDrafted("sA")
  \/ CalendarDeleted("sA")
  \/ CancellationLogged("sA")
  \/ CancellationEmailDrafted("sA")
  \/ ResultSent("sA")
  \/ SlotIntentDetected("sA")
  \/ IntentRedetected("sA")

\* The customer is new (the one earlier booking may have been cancelled since), or is back
\* in the session id of a booking made through the service this morning: NL-CCCC, the
\* first of the two slots offered for 'tomorrow', with or without a calendar event
\* (createCalendarEvent may have failed).
ReturningCustomer(calendarEventId) ==
  [bookings |-> [OneBooking EXCEPT !["NL-CCCC"] =
                   [StoredBooking("confirmed", Slot(BookDay - 2, "10:00"))
                      EXCEPT !.calendarEventId = calendarEventId]],
   session |-> [createSession EXCEPT
                  !.state = STATES.BOOKING_COMPLETE, !.intent = "book",
                  !.topic = "KYC/Onboarding",
                  !.preferences = extractTimePreferences("tomorrow"),
                  !.offeredSlots = <<Slot(BookDay - 2, "10:00"), Slot(BookDay - 2, "14:00")>>,
                  !.selectedSlot = Slot(BookDay - 2, "10:00"),
                  !.bookingCode = "NL-CCCC"]]

InitSolo ==
  /\ now = ServiceNow
  /\ tzOffset = 0 - IST_OFFSET_MIN
  /\ query = NoQuery
  /\ pc = [s \in Sessions |-> "idle"]
  /\ lastIndex = [p \in DOMAIN PII_PATTERNS |-> 0]
  /\ call = NoCall
  /\ \/ /\ bookings \in {OneBooking, NearlyFull,
                         [OneBooking EXCEPT !["NL-AAAA"] =
                            StoredBooking("cancelled", Slot(BookDay, "16:00"))]}
        /\ sessions = [s \in Sessions |-> NoSession]
        /\ turn = [s \in Sessions |-> [IdleTurn EXCEPT !.stages = 0]]
     \/ \E calendarEventId \in {NULL, "evt"} :
          /\ bookings = ReturningCustomer(calendarEventId).bookings
          /\ sessions = [s \in Sessions |->
                           IF s = "sA" THEN ReturningCustomer(calendarEventId).session
                           ELSE NoSession]
          /\ turn = [s \in Sessions |->
                       IF s = "sA" THEN [IdleTurn EXCEPT !.stages = Len(FlowStages)]
                       ELSE [IdleTurn EXCEPT !.stages = 0]]

SpecSolo == InitSolo /\ [][NextSolo]_vars

\* The fault that the validation of bookingStore.js lines 691-693 is written for: the
\* stored session has reached CONFIRMATION and its selectedSlot is null or lacks its date
\* or time.  No path of processMessage stores such a session (lines 1195 and 1325 store
\* the state together with a slot taken from the offered list), so it is an initial state
\* of a specification of its own.
InitFault ==
  \/ InitSolo
  \/ /\ now = ServiceNow
     /\ tzOffset = 0 - IST_OFFSET_MIN
     /\ bookings = OneBooking
     /\ query = NoQuery
     /\ sessions = [s \in Sessions |->
                      IF s = "sA"
                      THEN [ReturningCustomer(NULL).session EXCEPT
                              !.state = STATES.CONFIRMATION, !.selectedSlot = NoSlot,
                              !.bookingCode = NULL]
                      ELSE NoSession]
     /\ pc = [s \in Sessions |-> "idle"]
     /\ turn = [s \in Sessions |->
                  IF s = "sA" THEN [IdleTurn EXCEPT !.stages = Len(FlowStages) - 1]
                  ELSE [IdleTurn EXCEPT !.stages = 0]]
     /\ lastIndex = [p \in DOMAIN PII_PATTERNS |-> 0]
     /\ call = NoCall

SpecFault == InitFault /\ [][NextSolo]_vars

\* ------------------------------------------------- the registry's own operations

\* The dates the registry's callers book on and ask about.
RegistryDates == {BookDay, BookDay + 1}

InitRegistry ==
  /\ now = ServiceNow
  /\ tzOffset = 0 - IST_OFFSET_MIN
  /\ bookings = [c \in Codes |-> NoBooking]
  /\ query = NoQuery
  /\ sessions = [s \in Sessions |-> NoSession]
  /\ pc = [s \in Sessions |-> "idle"]
  /\ turn = [s \in Sessions |-> IdleTurn]
  /\ lastIndex = [p \in DOMAIN PII_PATTERNS |-> 0]
  /\ call = NoCall

\* A caller stores a booking: createBooking sets the record whatever the registry holds.
RegistryCreate ==
  /\ \E c \in Codes, d \in RegistryDates, i \in DOMAIN timeSlots :
        bookings' = createBooking(c, "KYC/Onboarding", Slot(d, timeSlots[i]), NULL)
  /\ UNCHANGED <<now, tzOffset, query, sessions, pc, turn, lastIndex, call>>

\* A caller cancels a stored booking.
RegistryCancel ==
  /\ \E c \in StoredCodes : bookings' = cancelBooking(c)
  /\ UNCHANGED <<now, tzOffset, query, sessions, pc, turn, lastIndex, call>>

NextRegistry == RegistryCreate \/ RegistryCancel

SpecRegistry == InitRegistry /\ [][NextRegistry]_vars

\* ------------------------------------------------- the helpers, called directly

\* Messages with a phone number, an account number, an e-mail address or a card number,
\* and messages with none.
GuardrailInputs ==
  {"9876543210", "my number is 9876543210", "9876543210 or 9123456780",
   "account 123456789012", "mail me at a.b@example.com", "a@b.co 9876543210",
   "card 1234 5678 9012 3456", "book appointment", "what should i buy"}

\* The messages of GuardrailInputs that hold personal data.
HoldsPII(message) == message \in GuardrailInputs \ {"book appointment", "what should i buy"}

\* The booking code generator with the look-alike characters left in its alphabet.
chars_WithLookalikes ==
  <<"A", "B", "C", "D", "E", "F", "G", "H", "I", "J", "K", "L", "M", "N", "O", "P", "Q", "R",
    "S", "T", "U", "V", "W", "X", "Y", "Z", "0", "1", "2", "3", "4", "5", "6", "7", "8", "9">>

\* generateBookingCode (part_001 lines 5-15), character by character.
chars ==
  <<"A", "B", "C", "D", "E", "F", "G", "H", "J", "K", "L", "M", "N", "P", "Q", "R",
    "S", "T", "U", "V", "W", "X", "Y", "Z", "2", "3", "4", "5", "6", "7", "8", "9">>

\* draws[i] is Math.floor(Math.random() * chars.length) in the i-th pass of the loop; the
\* result is the string as the sequence of its characters.
generateBookingCode(draws) ==
  <<"N", "L", "-">> \o [i \in 1 .. 4 |-> chars[draws[i] + 1]]

InitCalls ==
  /\ now = ServiceNow
  /\ tzOffset = 0 - IST_OFFSET_MIN
  /\ bookings = OneBooking
  /\ query = NoQuery
  /\ sessions = [s \in Sessions |-> NoSession]
  /\ pc = [s \in Sessions |-> "idle"]
  /\ turn = [s \in Sessions |-> IdleTurn]
  /\ lastIndex = [p \in DOMAIN PII_PATTERNS |-> 0]
  /\ call = NoCall

\* A caller invokes detectPII(message).
CallDetectPII ==
  /\ \E message \in GuardrailInputs :
        /\ call' = [NoCall EXCEPT !.fn = "detectPII", !.message = message,
                                  !.result = detectPII(message)]
        /\ lastIndex' = LastIndexAfter(message)
  /\ UNCHANGED <<now, tzOffset, bookings, query, sessions, pc, turn>>

\* A caller invokes detectInvestmentAdvice(message).
CallDetectInvestmentAdvice ==
  /\ \E message \in GuardrailInputs :
        call' = [NoCall EXCEPT !.fn = "detectInvestmentAdvice", !.message = message,
                               !.result = detectInvestmentAdvice(message)]
  /\ UNCHANGED <<now, tzOffset, bookings, query, sessions, pc, turn, lastIndex>>

\* A caller invokes detectIntent(message) and the classifier's client throws: the catch
\* branch returns fallbackIntentDetection(message).
CallDetectIntentFailing ==
  /\ \E message \in {"hello", "book appointment", "reschedule", "cancel", "available slots",
                      "cancel or reschedule my booking", "cancel my appointment",
                      "what times are available to book", "when can i schedule",
                      "move my booking", "remove booking", "delete booking",
                      "is a time slot available", "new booking", "change my booking",
                      "change time"} :
        call' = [NoCall EXCEPT !.fn = "detectIntent", !.message = message,
                               !.result = fallbackIntentDetection(message)]
  /\ UNCHANGED <<now, tzOffset, bookings, query, sessions, pc, turn, lastIndex>>

\* A caller invokes getNextState(currentState, action, context).
CallGetNextState ==
  /\ \E currentState \in ({STATES[k] : k \in DOMAIN STATES} \cup {"paused"}),
        action \in {"acknowledge", "topic_selected", "preferences_collected",
                    "slot_selected", "no_slots_available", "confirmed", "rejected",
                    "reschedule_complete", "cancellation_complete", "availability_shown",
                    "unknown", NULL},
        hasTopic \in BOOLEAN :
        call' = [NoCall EXCEPT !.fn = "getNextState", !.state = currentState,
                               !.action = action, !.hasTopic = hasTopic,
                               !.result = getNextState(currentState, action, hasTopic)]
  /\ UNCHANGED <<now, tzOffset, bookings, query, sessions, pc, turn, lastIndex>>

\* A caller invokes generateBookingCode().  The draws tried: each pass takes every index
\* of the alphabet, and the four passes of one call take different ones.
CallGenerateBookingCode ==
  /\ \E draws \in {[i \in 1 .. 4 |-> (v + 7 * i) % Len(chars)] : v \in 0 .. (Len(chars) - 1)} :
        call' = [NoCall EXCEPT !.fn = "generateBookingCode",
                               !.result = generateBookingCode(draws)]
  /\ UNCHANGED <<now, tzOffset, bookings, query, sessions, pc, turn, lastIndex>>

\* A caller invokes extractTimePreferences on a message that states an hour, and
\* filterSlotsByPreferences with the preferences it got (lines 418-474: the slot times
\* kept).
CallExtractTimePreferences ==
  /\ \E hour \in 0 .. 23, suffix \in {NULL, "am", "pm"} :
        call' = [NoCall EXCEPT !.fn = "extractTimePreferences",
                               !.hour = hour, !.suffix = suffix,
                               !.result = StatedTime(hour, suffix),
                               !.targetTimes = TargetTimes(StatedTime(hour, suffix))]
  /\ UNCHANGED <<now, tzOffset, bookings, query, sessions, pc, turn, lastIndex>>

NextCalls ==
  \/ CallDetectPII
  \/ CallDetectInvestmentAdvice
  \/ CallDetectIntentFailing
  \/ CallGetNextState
  \/ CallGenerateBookingCode
  \/ CallExtractTimePreferences

SpecCalls == InitCalls /\ [][NextCalls]_vars

\* ------------------------------------------------ the session store, called directly

\* createSession(id), lines 10-28: a new session is stored under the id, replacing any
\* session that was there, and returned.
StoreCreate ==
  /\ \E id \in Sessions :
        /\ sessions' = [sessions EXCEPT ![id] = createSession]
        /\ call' = [NoCall EXCEPT !.fn = "createSession", !.message = id,
                                  !.result = createSession, !.live = call.live \cup {id}]
  /\ UNCHANGED <<now, tzOffset, bookings, query, pc, turn, lastIndex>>

\* getSession(id), lines 33-35: sessions.get(id), undefined (NoSession) when there is none.
StoreGet ==
  /\ \E id \in Sessions :
        call' = [NoCall EXCEPT !.fn = "getSession", !.message = id,
                               !.result = sessions[id], !.live = call.live]
  /\ UNCHANGED <<now, tzOffset, bookings, query, sessions, pc, turn, lastIndex>>

\* updateSession as it would be if it stored the updates under an id it does not know.
StoreUpdate_Upserts ==
  /\ \E id \in Sessions :
      \E updates \in {[intent |-> "book", topic |-> "KYC/Onboarding"],
                       [state |-> STATES.TOPIC_SELECTION]} :
        LET session == IF sessions[id].exists THEN sessions[id] ELSE createSession
            assigned == [f \in DOMAIN session |->
                           IF f \in DOMAIN updates THEN updates[f] ELSE session[f]]
        IN /\ sessions' = [sessions EXCEPT ![id] = assigned]
           /\ call' = [NoCall EXCEPT !.fn = "updateSession", !.message = id,
                                     !.result = assigned, !.live = call.live]
  /\ UNCHANGED <<now, tzOffset, bookings, query, pc, turn, lastIndex>>

\* updateSession(id, updates), lines 40-48: Object.assign on the stored session, which is
\* returned; null (NoSession: no session) and no change for an id without a session.
StoreUpdate ==
  /\ \E id \in Sessions :
      \E updates \in {[intent |-> "book", topic |-> "KYC/Onboarding"],
                       [state |-> STATES.TOPIC_SELECTION]} :
        LET session == sessions[id]
            assigned == [f \in DOMAIN session |->
                           IF f \in DOMAIN updates THEN updates[f] ELSE session[f]]
        IN IF session.exists
           THEN /\ sessions' = [sessions EXCEPT ![id] = assigned]
                /\ call' = [NoCall EXCEPT !.fn = "updateSession", !.message = id,
                                          !.result = assigned, !.live = call.live]
           ELSE /\ sessions' = sessions
                /\ call' = [NoCall EXCEPT !.fn = "updateSession", !.message = id,
                                          !.result = NoSession, !.live = call.live]
  /\ UNCHANGED <<now, tzOffset, bookings, query, pc, turn, lastIndex>>

\* deleteSession(id), lines 53-55: sessions.delete(id), true when there was a session.
StoreDelete ==
  /\ \E id \in Sessions :
        /\ sessions' = [sessions EXCEPT ![id] = NoSession]
        /\ call' = [NoCall EXCEPT !.fn = "deleteSession", !.message = id,
                                  !.result = sessions[id].exists,
                                  !.live = call.live \ {id}]
  /\ UNCHANGED <<now, tzOffset, bookings, query, pc, turn, lastIndex>>

NextStore == StoreCreate \/ StoreGet \/ StoreUpdate \/ StoreDelete

SpecStore == InitCalls /\ [][NextStore]_vars

\* ------------------------------------------------------------------ claims

\* C1: the registry never holds two confirmed bookings with the same (date, time).
NoDoubleBooking ==
  \A c \in DOMAIN bookings, d \in DOMAIN bookings :
     (c # d /\ bookings[c].status = "confirmed" /\ bookings[d].status = "confirmed")
        => bookings[c].selectedSlot # bookings[d].selectedSlot

\* C2: in a confirming call the registry holds the booking before any external call
\* (calendar, sheet, email) is made: while one is awaited the booking is already stored.
CommitBeforeExternalCalls ==
  \A s \in Sessions :
     pc[s] \in {"create_calendar", "append_sheet", "email_draft"}
        => /\ getBooking(turn[s].bookingCode).status = "confirmed"
           /\ getBooking(turn[s].bookingCode).selectedSlot = turn[s].slot

\* C3: when a reschedule is applied, the rescheduled booking does not land on a
\* (date, time) that another confirmed booking holds.
RescheduleLandsOnFreeSlot ==
  [][\A s \in Sessions :
       (pc[s] = "reschedule_email" /\ pc'[s] = "respond")
          => \A d \in DOMAIN bookings' :
                (d # turn[s].bookingCode /\ bookings'[d].status = "confirmed"
                   /\ getBooking(turn[s].bookingCode).status = "confirmed")
                   => bookings'[d].selectedSlot # bookings'[turn[s].bookingCode].selectedSlot]_vars

ConflictEndsInOffer ==
  \A s \in Sessions :
     (pc[s] = "idle" /\ turn[s].conflicts \cap {"handler", "commit"} # {})
        => sessions[s].state \in {STATES.SLOT_OFFER, STATES.TIME_PREFERENCE}

\* C6 as stated: a call whose selection step found the picked option taken ends in
\* SLOT_OFFER with the offered list replaced and the taken slot not selected.
TakenPickStaysInOffer ==
  \A s \in Sessions :
     (pc[s] = "idle" /\ "selection" \in turn[s].conflicts)
        => /\ sessions[s].state = STATES.SLOT_OFFER
           /\ sessions[s].offeredSlots = turn[s].replaced
           /\ sessions[s].selectedSlot # turn[s].picked

\* C6: a call whose selection step found the picked option taken never ends in
\* CONFIRMATION and never selects the taken slot: it ends in SLOT_OFFER with the offered
\* list replaced by alternatives without the taken slot, or, when there is no
\* alternative, in TIME_PREFERENCE.
TakenPickNotSelected ==
  \A s \in Sessions :
     (pc[s] = "idle" /\ "selection" \in turn[s].conflicts)
        => /\ sessions[s].selectedSlot # turn[s].picked
           /\ \/ /\ sessions[s].state = STATES.SLOT_OFFER
                 /\ Len(turn[s].replaced) > 0
                 /\ sessions[s].offeredSlots = turn[s].replaced
                 /\ \A i \in DOMAIN turn[s].replaced : turn[s].replaced[i] # turn[s].picked
              \/ /\ sessions[s].state = STATES.TIME_PREFERENCE
                 /\ turn[s].replaced = <<>>

\* C6 is exercised: a picked option was found taken and alternatives were offered.
TakenPickReplaced ==
  \E s \in Sessions :
     /\ pc[s] = "idle" /\ "selection" \in turn[s].conflicts
     /\ turn[s].picked \in getBookedSlots(NULL)
     /\ Len(turn[s].replaced) > 0

\* C7: no slot returned by the availability engine falls on the rest day (Sunday).
NoRestDaySlots ==
  query.called => \A i \in DOMAIN query.slots : DayOfWeek(query.slots[i].date) # 0

\* C7 is exercised: a request for the rest day was redirected and slots were returned.
RestDayRequestServed ==
  query.called /\ query.isSundayRequest /\ Len(query.slots) > 0

\* C8: every returned slot's instant is strictly after the true current instant.
NoPastSlots ==
  query.called => \A i \in DOMAIN query.slots :
     createISTDateTime(query.slots[i].date, query.slots[i].time) > now

\* C9: no returned slot has the (date, time) of a confirmed booking other than excludeCode.
NoBookedSlotsOffered ==
  query.called => \A i \in DOMAIN query.slots :
     ~\E c \in Codes :
        /\ c # query.excludeBookingCode
        /\ bookings[c].status = "confirmed"
        /\ bookings[c].selectedSlot = query.slots[i]

TomorrowRestDayOnMonday ==
  LET today == (now + IST_OFFSET_MIN) \div MinutesPerDay
  IN (query.called /\ query.preferences.day = "tomorrow" /\ DayOfWeek(today + 1) = 0)
        => \A i \in DOMAIN query.slots : query.slots[i].date = today + 2

\* C12: a request for 'sunday' sets the redirect flag and returns slots on the first
\* Monday after today only.
SundayRequestOnMonday ==
  LET today == (now + IST_OFFSET_MIN) \div MinutesPerDay
      monday == today + ((1 - DayOfWeek(today) + 6) % 7) + 1
  IN (query.called /\ query.preferences.day = "sunday")
        => /\ query.isSundayRequest
           /\ \A i \in DOMAIN query.slots : query.slots[i].date = monday

\* C15: when the filter for a target date that is no rest day matches no slot, at most 2
\* slots are returned and none of them is on the target date.
NoMatchFallsOffTargetDate ==
  LET dayPart == DayPart(query.preferences.day, getISTToday)
      slots == GenerateFrom(0, query.excludeBookingCode)
      times == TargetTimes(query.preferences)
      matches == SelectSeq(OnDate(slots, dayPart[3]),
                           LAMBDA x : times = {} \/ x.time \in times)
  IN (query.called /\ ~dayPart[1] /\ dayPart[3] # NoDate /\ Len(matches) = 0)
        => /\ Len(query.slots) <= 2
           /\ \A i \in DOMAIN query.slots : query.slots[i].date # dayPart[3]

\* C13: a call whose stated day resolved to the rest day and that stored an offer leaves
\* offeredSlots dated on the redirect date (the Monday after) only.
RestDayOfferOnRedirectDate ==
  \A s \in Sessions :
     (pc[s] = "idle" /\ turn[s].redirect # NoDate /\ sessions[s].state = STATES.SLOT_OFFER)
        => \A i \in DOMAIN sessions[s].offeredSlots :
              sessions[s].offeredSlots[i].date = turn[s].redirect

\* C14: isDateFullyBooked(date, excludeCode), in the booking store and in the booking
\* repository, is true exactly when each of 10:00, 14:00 and 16:00 on that date is the
\* slot of a confirmed booking other than excludeCode.
FullyBookedIffAllTimesHeld ==
  \A date \in RegistryDates, excludeCode \in Codes \cup {NULL} :
     LET held == \A i \in DOMAIN timeSlots :
                    \E c \in Codes \ {excludeCode} :
                       /\ bookings[c].status = "confirmed"
                       /\ bookings[c].selectedSlot = Slot(date, timeSlots[i])
     IN /\ isDateFullyBooked(date, excludeCode) <=> held
        /\ BookingRepository_isDateFullyBooked(date, excludeCode) <=> held

\* C16: a call whose message holds personal data or asks for advice leaves the session
\* it found, with its state, intent, topic, preferences, offered and selected slots,
\* booking codes and pending flag, and the registry as they were: at its first step and
\* at every later step it takes.
GuardrailTurnChangesNothing ==
  [][\A s \in Sessions, m \in SoloMessages :
       (HoldsPII(m) \/ detectInvestmentAdvice(m))
          => /\ Receive(s, m)
                  => /\ sessions[s].exists => sessions'[s] = sessions[s]
                     /\ bookings' = bookings
             /\ (pc[s] # "idle" /\ turn[s].msg = m)
                  => /\ sessions'[s] = sessions[s]
                     /\ pc'[s] # pc[s] => bookings' = bookings]_vars

\* C17: detectPII returns true on every call with a message that holds a phone number,
\* an account number, an e-mail address or a card number, whatever calls came before.
PIIDetectedOnEveryCall ==
  (call.fn = "detectPII" /\ HoldsPII(call.message)) => call.result = TRUE

\* C18: when the classifier fails, the intent is that of the highest-ranked kind of
\* keyword the message includes, ranked reschedule, cancel, availability, book, and
\* general when it includes none.
FallbackPrecedence ==
  LET ranked == <<"reschedule", "cancel", "availability", "book">>
      has == {i \in DOMAIN ranked :
                IncludedKeywords(call.message) \cap FallbackKeywords[ranked[i]] # {}}
  IN call.fn = "detectIntent"
        => call.result = IF has = {} THEN "general"
                         ELSE ranked[CHOOSE i \in has : \A j \in has : i <= j]

\* C18 is exercised: a message with keywords of three intents was resolved.
FallbackResolvedSeveral ==
  /\ call.fn = "detectIntent"
  /\ Cardinality({k \in DOMAIN FallbackKeywords :
                    IncludedKeywords(call.message) \cap FallbackKeywords[k] # {}}) >= 3
  /\ call.result = "reschedule"

\* C20 as stated: in every state, an outcome tag the state does not recognize leaves the
\* state as it is.
UnrecognizedIsNoOp ==
  (call.fn = "getNextState" /\ call.action \notin RecognizedOutcomes(call.state))
     => call.result = call.state

\* C20: in every state but GREETING and BOOKING_COMPLETE an outcome tag the state does
\* not recognize leaves the state as it is; GREETING goes to DISCLAIMER and
\* BOOKING_COMPLETE to COMPLETED on every tag.
UnrecognizedIsNoOpPastGreeting ==
  call.fn = "getNextState"
     => /\ (/\ call.state \notin {STATES.GREETING, STATES.BOOKING_COMPLETE}
            /\ call.action \notin RecognizedOutcomes(call.state))
           => call.result = call.state
        /\ call.state = STATES.GREETING => call.result = STATES.DISCLAIMER
        /\ call.state = STATES.BOOKING_COMPLETE => call.result = STATES.COMPLETED

\* C20 is exercised: the transition function was asked about an offer and a tag
\* that belongs to another state.
UnrecognizedTagAsked ==
  /\ call.fn = "getNextState" /\ call.state = STATES.SLOT_OFFER
  /\ call.action = "confirmed" /\ call.result = STATES.SLOT_OFFER

\* C19: a step that changes the intent of a session which has an intent and is in
\* neither GREETING nor DISCLAIMER is the reset of a completed session (COMPLETED or
\* BOOKING_COMPLETE) on a message that asks for a new top-level action.
IntentSticky ==
  [][\A s \in Sessions :
       (/\ sessions[s].exists /\ sessions[s].intent # NULL
        /\ sessions[s].state \notin {STATES.GREETING, STATES.DISCLAIMER}
        /\ sessions'[s].intent # sessions[s].intent)
          => /\ turn'[s].resetFrom \in {STATES.COMPLETED, STATES.BOOKING_COMPLETE}
             /\ wantsNewAction(turn'[s].msg)]_vars

\* C19 is exercised: a booking conversation kept its intent up to the confirmation, and
\* a completed conversation was reset on a new request.
IntentKeptThenReset ==
  \E s, o \in Sessions :
     /\ sessions[s].intent = "book" /\ sessions[s].state = STATES.CONFIRMATION
     /\ pc[o] \in {"detect_intent", "redetect_intent"}
     /\ turn[o].resetFrom = STATES.COMPLETED /\ sessions[o].intent = NULL

\* C21: a call that finds the session in COMPLETED or BOOKING_COMPLETE and whose message
\* asks for a new top-level action (and passes the guardrails) puts the session in GREETING
\* with topic, preferences, offered and selected slot, booking code, reschedule and cancel
\* codes and the pending flag cleared, and that step leaves the registry as it was.
RestartClearsSession ==
  [][\A m \in SoloMessages :
       (/\ Receive("sA", m) /\ isCompleted(sessions["sA"]) /\ wantsNewAction(m)
        /\ ~detectPII(m) /\ ~detectInvestmentAdvice(m))
          => /\ sessions'["sA"].state = STATES.GREETING
             /\ sessions'["sA"].topic = NULL /\ sessions'["sA"].preferences = NoPrefs
             /\ sessions'["sA"].offeredSlots = NullSlots
             /\ sessions'["sA"].selectedSlot = NoSlot
             /\ sessions'["sA"].bookingCode = NULL
             /\ sessions'["sA"].bookingCodeToReschedule = NULL
             /\ sessions'["sA"].bookingCodeToCancel = NULL
             /\ ~sessions'["sA"].cancellationPending
             /\ bookings' = bookings]_vars

\* A finished booking conversation was reset by the call now waiting for its intent; the
\* booking it made is still in the registry.
RestartedAfterBooking ==
  /\ pc["sA"] = "detect_intent"
  /\ turn["sA"].resetFrom = STATES.BOOKING_COMPLETE
  /\ turn["sA"].msg = "cancel"
  /\ sessions["sA"].state = STATES.GREETING /\ sessions["sA"].bookingCode = NULL
  /\ getBooking("NL-CCCC").status = "confirmed"

\* C22: every code generateBookingCode returns is two capital letters, a dash and four
\* capital letters or digits (^[A-Z]{2}-[A-Z0-9]{4}$), and none of its characters is
\* 0, O, 1 or I.
GeneratedCodeWellFormed ==
  call.fn = "generateBookingCode" =>
    LET code == call.result
        Letters == {"A", "B", "C", "D", "E", "F", "G", "H", "I", "J", "K", "L", "M", "N",
                    "O", "P", "Q", "R", "S", "T", "U", "V", "W", "X", "Y", "Z"}
        Digits == {"0", "1", "2", "3", "4", "5", "6", "7", "8", "9"}
    IN /\ Len(code) = 7
       /\ code[1] \in Letters /\ code[2] \in Letters /\ code[3] = "-"
       /\ \A i \in 4 .. 7 : code[i] \in Letters \cup Digits
       /\ \A i \in 1 .. 7 : code[i] \notin {"0", "O", "1", "I"}

\* A code was generated whose first drawn character is the last of the alphabet.
GeneratedCodeFromLastIndex ==
  call.fn = "generateBookingCode" /\ call.result[4] = "9" /\ call.result[5] # "9"

\* C23: the code a commit stores a booking under is one the registry does not hold, so
\* createBooking never replaces an existing record.
CommitUsesFreshCode ==
  [][(pc["sA"] = "email_draft" /\ pc'["sA"] = "respond")
       => getBooking(turn["sA"].bookingCode).status = "absent"]_vars

\* C24: whatever external calls of a confirming call failed, the call that got as far as
\* these calls returns with the booking stored as confirmed, and its functionCalls (from
\* which the message's status lines are built) name each of calendar, sheet and email as
\* done or as failed.
BookingSurvivesFailedCalls ==
  (pc["sA"] = "respond" /\ turn["sA"].type = "booking_confirmed" /\ turn["sA"].slot # NoSlot)
    => /\ getBooking(turn["sA"].bookingCode).status = "confirmed"
       /\ getBooking(turn["sA"].bookingCode).selectedSlot = turn["sA"].slot
       /\ \A tag \in {"create_calendar_hold", "append_to_sheet", "create_email_draft"} :
            (tag \in turn["sA"].calls) # ((tag \o "_failed") \in turn["sA"].calls)

\* A confirming call returns after all three external calls failed.
BookedWithAllCallsFailed ==
  /\ pc["sA"] = "respond" /\ turn["sA"].type = "booking_confirmed"
  /\ turn["sA"].calls = {"create_calendar_hold_failed", "append_to_sheet_failed",
                          "create_email_draft_failed"}
  /\ getBooking(turn["sA"].bookingCode).status = "confirmed"

\* C25: a cancellation of a booking that has no calendar event returns with the booking
\* cancelled; deleteCalendarEvent was not called, and the sheet entry and the email draft
\* were each attempted (done or failed).
CancelWithoutEventSucceeds ==
  (/\ pc["sA"] = "respond" /\ turn["sA"].type = "cancellation_confirmed"
   /\ getBooking(turn["sA"].bookingCode).calendarEventId = NULL)
    => /\ getBooking(turn["sA"].bookingCode).status = "cancelled"
       /\ turn["sA"].calls \cap {"remove_calendar_hold", "remove_calendar_hold_failed"} = {}
       /\ \A tag \in {"log_cancellation", "create_cancellation_email_draft"} :
            (tag \in turn["sA"].calls) # ((tag \o "_failed") \in turn["sA"].calls)

\* The booking made without a calendar event was cancelled, and the sheet entry failed.
CancelledWithoutEvent ==
  /\ pc["sA"] = "respond" /\ turn["sA"].type = "cancellation_confirmed"
  /\ turn["sA"].bookingCode = "NL-CCCC"
  /\ getBooking("NL-CCCC").calendarEventId = NULL
  /\ getBooking("NL-CCCC").status = "cancelled"
  /\ "log_cancellation_failed" \in turn["sA"].calls

\* C26: when a call returns a reschedule_confirmed result for a code, the registry's
\* record of that code holds the slot just picked, and the slot it held before as its
\* previous slot.
RescheduleRecorded ==
  (pc["sA"] = "respond" /\ turn["sA"].type = "reschedule_confirmed")
    => /\ getBooking(turn["sA"].bookingCode).selectedSlot = turn["sA"].slot
       /\ getBooking(turn["sA"].bookingCode).previousSlot = turn["sA"].previousSlot

\* C27: a call's handler answers cancellation_confirmed only when the session came into
\* the call with cancellationPending set and the code to cancel stored by an earlier call,
\* and the message says yes; and a booking's status goes from confirmed to cancelled only
\* at the end of such a call of a session, for the code that session had stored.
CancelNeedsPendingAndYes ==
  [][/\ \A s \in Sessions :
          (turn'[s].type = "cancellation_confirmed" /\ turn[s].type # "cancellation_confirmed")
            => /\ sessions[s].cancellationPending
               /\ sessions[s].bookingCodeToCancel = turn'[s].bookingCode
               /\ saysYes(turn'[s].msg)
     /\ \A c \in DOMAIN bookings :
          (bookings[c].status = "confirmed" /\ bookings'[c].status = "cancelled")
            => \E s \in Sessions :
                 /\ pc[s] = "cancel_email" /\ pc'[s] = "respond"
                 /\ turn[s].type = "cancellation_confirmed" /\ turn[s].bookingCode = c
                 /\ sessions[s].cancellationPending /\ sessions[s].bookingCodeToCancel = c
                 /\ saysYes(turn[s].msg)]_vars

\* A session's call has cancelled the booking whose code the session had stored.
CancelledAfterSecondTurn ==
  \E s \in Sessions :
     /\ pc[s] = "respond" /\ turn[s].type = "cancellation_confirmed"
     /\ sessions[s].cancellationPending
     /\ sessions[s].bookingCodeToCancel = turn[s].bookingCode
     /\ getBooking(turn[s].bookingCode).status = "cancelled"

\* C28: when the reschedule or cancel handler gets a message that carries a booking code
\* and the registry has no confirmed booking under it, the response is a not-found
\* response, the registry stays as it is, the session's code to reschedule, code to cancel
\* and pending flag stay as they were, and the call ends with the session where a
\* message with a confirmed booking's code, handled next, finds that booking.
UnknownCodeReportedNotFound ==
  [][\A m \in SoloMessages :
       LET code == IF m \in Codes \/ m = "reschedule NL-CCCC"
                   THEN extractBookingCodeFromVoice(m) ELSE NULL
           before == sessions["sA"]
           detected == pc["sA"] = "detect_intent" /\ turn["sA"].msg = m
                         /\ pc'["sA"] # "detect_intent"
           continued == /\ Receive("sA", m) /\ pc'["sA"] # "detect_intent"
                        /\ ~detectPII(m) /\ ~detectInvestmentAdvice(m)
           session == IF detected THEN [before EXCEPT !.intent = sessions'["sA"].intent]
                      ELSE before
       IN (/\ code # NULL /\ getBooking(code).status # "confirmed"
           /\ detected \/ continued
           /\ session.intent \in {"reschedule", "cancel"}
           /\ session.intent = "reschedule" => session.bookingCodeToReschedule = NULL)
            => /\ Handled(session, m, NULL).type
                    \in {"reschedule_not_found", "cancellation_not_found"}
               /\ bookings' = bookings
               /\ sessions'["sA"].bookingCodeToReschedule = before.bookingCodeToReschedule
               /\ sessions'["sA"].bookingCodeToCancel = before.bookingCodeToCancel
               /\ sessions'["sA"].cancellationPending = before.cancellationPending
               /\ pc'["sA"] = "idle"
               /\ \A other \in Codes :
                    getBooking(other).status = "confirmed"
                      => Handled(sessions'["sA"], other, NULL).type
                           \in {"reschedule_booking_found", "cancellation_confirmation"}]_vars

CommitFollowsFlow ==
  \A s \in Sessions :
    (turn[s].committed /\ turn[s].stages # UNDEF) => turn[s].stages = Len(FlowStages)

\* C31: a call that has completed a reschedule or a cancellation, or answered an
\* availability query, and is past the block of its response (its result is on the way to
\* the controller, or only the intent of lines 1549-1550 is still to be stored) has the
\* session in COMPLETED.
BranchesEndCompleted ==
  \A s \in Sessions :
    (/\ pc[s] \in {"respond", "redetect_intent"}
     /\ turn[s].type \in {"reschedule_confirmed", "cancellation_confirmed", "availability_shown"})
      => sessions[s].state = STATES.COMPLETED

\* C32: no step removes a code from the registry, and a step that cancels a booking
\* (the record becomes cancelled, or its cancellation time is rewritten) leaves every
\* other field of the record as it was.
RecordsKept ==
  [][\A c \in DOMAIN bookings :
       /\ bookings[c].status # "absent" => bookings'[c].status # "absent"
       /\ (/\ bookings'[c].status = "cancelled"
           /\ (bookings[c].status = "confirmed" \/ bookings'[c].cancelled # bookings[c].cancelled))
            => bookings'[c] = [bookings[c] EXCEPT !.status = "cancelled",
                                                 !.cancelled = bookings'[c].cancelled]]_vars

\* A session's call has cancelled a booking, and the record is still in the registry with
\* its slot and topic.
CancelledRecordKept ==
  \E s \in Sessions : \E c \in DOMAIN bookings :
     /\ pc[s] = "respond" /\ turn[s].type = "cancellation_confirmed"
     /\ turn[s].bookingCode = c
     /\ bookings[c].status = "cancelled" /\ bookings[c].cancelled = 1
     /\ bookings[c].selectedSlot # NoSlot /\ bookings[c].topic # NULL

\* C33: the hour a message states is stored with the term of the fixed time nearest to
\* it, the earlier one when two are equally near, and the filter keeps that time's slots:
\* both agree with the nearest of 10:00, 14:00 and 16:00.
HourMapsToClosest ==
  call.fn = "extractTimePreferences"
    => LET h == call.result.specificHour
           nearest == CHOOSE t \in {10, 14, 16} :
                        \A u \in {10, 14, 16} :
                          \/ Abs(h - t) < Abs(h - u)
                          \/ Abs(h - t) = Abs(h - u) /\ t <= u
       IN /\ call.result.time = (CASE nearest = 10 -> "morning" [] nearest = 14 -> "afternoon"
                                   [] OTHER -> "evening")
          /\ call.targetTimes = {timeSlots[CHOOSE i \in DOMAIN timeSlots :
                                              TimeHour(timeSlots[i]) = nearest]}

\* '12 pm' was extracted and filtered: an hour as near to 10:00 as to 14:00.
NoonMappedToMorning ==
  /\ call.fn = "extractTimePreferences" /\ call.hour = 12 /\ call.suffix = "pm"
  /\ call.result.specificHour = 12 /\ call.result.time = "morning"
  /\ call.targetTimes = {"10:00"}

\* C34: the store holds a session under an id exactly when the id was created and not
\* deleted since; createSession returns and stores a session in 'greeting' without an
\* intent; getSession and updateSession return no session for an id that holds none.
StoreHoldsCreated ==
  /\ \A id \in Sessions : sessions[id].exists <=> id \in call.live
  /\ call.fn = "createSession"
       => /\ call.result.state = "greeting" /\ call.result.intent = NULL
          /\ sessions[call.message] = call.result
  /\ (call.fn \in {"getSession", "updateSession"} /\ call.message \notin call.live)
       => call.result = NoSession

\* updateSession was called for an id that holds no session while the other id holds an
\* updated one.
UpdateOfUnknownId ==
  /\ call.fn = "updateSession" /\ call.message = "sA" /\ call.result = NoSession
  /\ ~sessions["sA"].exists
  /\ sessions["sB"].exists /\ sessions["sB"].intent = "book"

\* C35: a call that has collected the time preferences and moved the session to
\* SLOT_OFFER does not go on to select a slot: its next step neither enters CONFIRMATION
\* nor changes selectedSlot.
PreferenceTurnSelectsNothing ==
  [][\A s \in Sessions :
       (/\ pc[s] = "slot_intent" /\ turn[s].type = "preferences_collected"
        /\ sessions[s].state = STATES.SLOT_OFFER)
         => /\ sessions'[s].state # STATES.CONFIRMATION
            /\ sessions'[s].selectedSlot = sessions[s].selectedSlot]_vars

\* C36: when a call that began in SLOT_OFFER with the message 'option N' looks up option
\* N and stores it as the selected slot, that slot is element N of the offeredSlots the
\* session held when the call began (the list of the previous reply).
OptionIsTheOneShown ==
  [][\A s \in Sessions :
       LET k == optionOf(turn[s].msg)
       IN (/\ pc[s] = "slot_intent" /\ k # 0 /\ turn[s].shown # NullSlots
           /\ k <= Len(sessions[s].offeredSlots)
           /\ turn'[s].picked = sessions[s].offeredSlots[k]
           /\ sessions'[s].state = STATES.CONFIRMATION)
            => /\ k <= Len(turn[s].shown)
               /\ sessions'[s].selectedSlot = turn[s].shown[k]]_vars


\* C37: at the end of every turn a session that carries a booking code has a registry
\* entry under that code, and the entry's slot is the session's selectedSlot.
CodeNamesSelectedSlot ==
  \A s \in Sessions :
    (pc[s] = "idle" /\ sessions[s].bookingCode # NULL)
      => /\ getBooking(sessions[s].bookingCode).status # "absent"
         /\ getBooking(sessions[s].bookingCode).selectedSlot = sessions[s].selectedSlot


\* C38: a booking is cancelled at most once: its cancellation time is written by one
\* cancelBooking call and by no later one, whichever session asks.
CancelledAtMostOnce ==
  \A c \in StoredCodes : bookings[c].cancelled <= 1


\* C39: a call that receives 'no' in CONFIRMATION changes nothing in the registry and
\* leaves the session in SLOT_OFFER.
NoReturnsToOffer ==
  [][\A s \in Sessions :
       (/\ sessions[s].exists /\ sessions[s].state = STATES.CONFIRMATION
        /\ Receive(s, "no"))
         => /\ bookings' = bookings
            /\ pc'[s] = "idle"
            /\ sessions'[s].state = STATES.SLOT_OFFER]_vars


\* C40: createBooking and cancelBooking are only called by a call whose message is an
\* affirmation as a whole ('yes'), not by one that contains 'ok' or names an option.
OnlyAffirmationCommits ==
  [][\A s \in Sessions :
       (\/ turn'[s].committed /\ ~turn[s].committed
        \/ pc[s] = "cancel_email" /\ pc'[s] = "respond")
         => turn[s].msg = "yes"]_vars

====
